---- MODULE Spec2Model ----
(***************************************************************************)
(* Model of the action-sequence pipeline of the object-and-action          *)
(* detection backend: ActionStateMachine (core/state_machine.py), the      *)
(* per-person debounced state machine that turns per-frame detections into *)
(* completed-sequence events; RingBuffer (core/ring_buffer.py);            *)
(* FrameProcessor (core/frame_processor.py), whose two loops feed them;    *)
(* VisionLLMDetector (detection/llm_detector.py); BufferedCapture         *)
(* (core/video_capture.py); CameraManager (services/camera_manager.py);    *)
(* and the WebSocket handler of a camera (api/websocket.py).               *)
(*                                                                         *)
(* Confidences of the state machine are percentages (0.65 is 65), those of *)
(* detector results thousandths (0.45 is 450).  An Optional value is a     *)
(* sequence of length 0 (None) or 1.  Timestamps are whole seconds; the    *)
(* clock of the timed confirmation loop counts milliseconds.               *)
(***************************************************************************)
EXTENDS Integers, Sequences, FiniteSets, TLC

VARIABLES
    tracked_persons,  \* ActionStateMachine.tracked_persons: track_id -> TrackedPerson
    now,              \* the wall clock read by datetime.utcnow()
    call,             \* Optional: arguments of the most recent update() call
    ret,              \* Optional: the tuple returned by the most recent update() call
    duration_seconds, \* RingBuffer.duration_seconds
    fps,              \* RingBuffer.fps
    _buffer,          \* RingBuffer._buffer: the deque of BufferedFrame
    _frame_counter,   \* RingBuffer._frame_counter
    rb_call,          \* Optional: the most recent RingBuffer operation and its arguments
    rb_ret,           \* Optional: what that operation returned
    pa_det,           \* _pick_action argument det (Optional until drawn)
    pa_movenet,       \* _pick_action argument movenet: Optional PersonDetection
    pa_llm,           \* _pick_action argument llm: Optional PersonDetection
    pa_n_persons,     \* _pick_action argument n_persons
    pa_ret,           \* Optional: the ActionResult _pick_action returned
    llm_call,         \* Optional: the VisionLLMDetector method called and what the
                      \* API request gave back
    llm_ret,          \* Optional: what that call returned
    bc_buffer,        \* BufferedCapture._buffer: the queue of frames, oldest first
    bc_thread,        \* where the _capture_loop thread is, and the frame it holds
    bc_captured,      \* number of frames the inner capture has delivered
    bc_got,           \* Optional: what the most recent BufferedCapture.get_frame returned
    _lock,            \* RingBuffer._lock: "free", or the thread that holds it
    rb_threads,       \* the threads calling the RingBuffer: where each one is in its
                      \* call, its arguments, its locals and what its last call returned
    time_ms,          \* time.time() in milliseconds, for the timed _detection_loop
    call_start,       \* Optional: call_start of the current _detection_loop iteration
    sleep_until,      \* Optional: when the asyncio.sleep(remaining) under way is over
    llm_calls,        \* the times at which the loop has called the LLM detector
    _running,         \* FrameProcessor._running
    _status,          \* FrameProcessor._status
    _capture,         \* FrameProcessor._capture: "None", "unopened" (a capture
                      \* whose start() failed), "started", or "stopped" (stop()
                      \* was called on it and the field is None again)
    _llm,             \* FrameProcessor._llm: "None", "no_client" (a detector whose
                      \* initialize() failed), "client", or "closed" (close() was
                      \* called on it and the field is None again)
    _movenet_active,  \* FrameProcessor._movenet_active
    _latest_raw_frame,          \* Optional: frame id of the latest frame read
    _latest_yolo_detections,    \* what the frame loop last stored from YOLODetector.detect
    _last_movenet_detection,    \* Optional PersonDetection
    _last_llm_detection,        \* Optional PersonDetection
    _last_detection_time,       \* clock reading when the LLM result was last stored
    frame_pc,         \* where the _frame_loop task is
    detect_pc,        \* where the _detection_loop task is
    stop_pc,          \* where the stop() call is
    start_ret,        \* Optional: what the most recent start() call returned
    tick_log,         \* Optional: what the latest step of _frame_loop did
    det_log,          \* Optional: how the latest _detection_loop iteration went
    tasks,            \* the _handle_event_completed tasks created and not yet run
    handled,          \* what each _handle_event_completed task that ran did
    start_pc,         \* where each FrameProcessor.start() call is
    llm_of,           \* the start() call that created the detector in self._llm (0: none)
    frame_loops,      \* where each _frame_loop task is, in order of creation
    detection_loops,  \* where each _detection_loop task is, in order of creation
    _processors,      \* CameraManager._processors[camera_id]: Optional processor
    mgr_calls,        \* where each start_camera / stop_camera request is
    fp_status,        \* state of the FrameProcessor each start_camera request created
    active_connections,  \* ConnectionManager.active_connections[camera_id]
    _ws_callbacks,    \* CameraManager._ws_callbacks[camera_id]: the client of each callback
    ws_pc,            \* where each client's camera_websocket handler is
    ws_tasks,         \* the ConnectionManager.broadcast tasks created and not finished
    ws_received,      \* the messages each client has been sent
    ws_published      \* number of frames the fast loop has published

smVars == <<tracked_persons, now, call, ret>>
rbVars == <<duration_seconds, fps, _buffer, _frame_counter, rb_call, rb_ret>>
paVars == <<pa_det, pa_movenet, pa_llm, pa_n_persons, pa_ret>>
llmVars == <<llm_call, llm_ret>>
bcVars == <<bc_buffer, bc_thread, bc_captured, bc_got>>
lockVars == <<_lock, rb_threads>>
gapVars == <<time_ms, call_start, sleep_until, llm_calls>>
taskVars == <<start_pc, llm_of, frame_loops, detection_loops>>
mgrVars == <<_processors, mgr_calls, fp_status>>
wsVars == <<active_connections, _ws_callbacks, ws_pc, ws_tasks, ws_received, ws_published>>
extVars == <<taskVars, mgrVars, wsVars>>
unitVars == <<llmVars, bcVars, lockVars, gapVars, extVars>>
lifeVars == <<_running, _status, _capture, _llm, _movenet_active, stop_pc, start_ret>>
slotVars == <<_latest_raw_frame, _latest_yolo_detections, _last_movenet_detection,
              _last_llm_detection, _last_detection_time>>
loopVars == <<frame_pc, detect_pc, tick_log, det_log>>
eventVars == <<tasks, handled>>
fpVars == <<lifeVars, slotVars, loopVars, eventVars>>
vars == <<smVars, rbVars, paVars, unitVars, fpVars>>

----------------------------------------------------------------------------
(* Bounds of the model *)

MaxTime == 31       \* the clock stops at MaxTime seconds
MaxFrames == 2      \* cap on TrackedPerson.consecutive_frames
MaxHistory == 4     \* cap on the length of TrackedPerson.state_history
MaxFps == 2         \* largest frame rate a RingBuffer is constructed with
MaxAppends == 6     \* cap on RingBuffer._frame_counter
MaxQuietFrames == 5 \* cap on the frames the fast loop reads before an event is handled
MaxLongHistory == 8 \* cap on state_history for a subject that drinks repeatedly
MaxGapTicks == 8    \* the clock of the timed _detection_loop stops after so many ticks
MaxLoopFrames == 3  \* cap on the frames the loops of a restarted processor read
MaxStarts == 2      \* cap on the start() calls made on one FrameProcessor
MaxRequests == 3    \* cap on the start_camera / stop_camera requests
MaxClients == 2     \* cap on the WebSocket clients of one camera
MaxPublished == 2   \* cap on the frames the fast loop publishes to the clients
MaxCaptured == 5    \* cap on the frames the inner capture delivers

\* Track ids the box detector assigns
TrackIds == {1}

\* Confidences the detectors report, in percent: below the threshold, on the
\* threshold, above 0.9
Confidences == {50, 60, 95}

\* The confidences of the debounce scenario (0.65 then 0.70)
ScenarioConfidences == {65, 70}

\* Two subjects in view at once, and the confidences reported for them
SubjectIds == {1, 2}
SubjectConfidences == {95}

\* Confidences of a subject that drinks repeatedly
RepeatConfidences == {60, 95}

\* The start() calls made on one FrameProcessor, the requests made to the
\* CameraManager for one camera, and the WebSocket clients of one camera
StartCalls == 1..MaxStarts
ManagerCalls == 1..MaxRequests
Clients == 1..MaxClients

\* Amounts by which the clock advances between two operations, in seconds
\* (long enough for a subject to go stale)
TickSteps == {31}

\* Arguments a RingBuffer is constructed with
Durations == {1, 2}
FpsValues == 1..MaxFps

\* Frames handed to add_frame, and the timestamps they carry
Frames == {"img"}
Timestamps == 0..2

\* Padding arguments of get_clip_frames
PadSeconds == {0, 1}

\* What the detectors report to the two loops: the persons YOLODetector.detect
\* finds, and the states and confidences (in thousandths) the vision LLM answers
YoloPersonLists == {<<>>, <<1>>}
LlmConfidences == {900}

\* How writing the snapshot or the clip of an event can end: the file is
\* written, the writer reports or swallows a failure, or an exception escapes
ArtifactOutcomes == {"written", "failed", "raised"}

\* Track ids and confidences (in thousandths) of the results _pick_action is
\* given: around 0.45 and 0.60, the 0.70/0.80 example, and the cap at 1.0
ArbTrackIds == {1, 2}
ArbConfidences == {440, 450, 590, 600, 700, 800, 1000}

----------------------------------------------------------------------------
(* ActionState enum *)

IDLE == "idle"
BOTTLE_IN_HAND == "bottle_in_hand"
CAP_OPENING == "cap_opening"
DRINKING == "drinking"
COMPLETED == "completed"
UNCERTAIN == "uncertain"

ActionState == {IDLE, BOTTLE_IN_HAND, CAP_OPENING, DRINKING, COMPLETED, UNCERTAIN}

\* CameraStatus enum: the values CameraStatus(status) accepts
CameraStatus == {"running", "stopped", "error"}

(* Settings *)

confidence_threshold == 60
consecutive_frames_required == 2
max_age_seconds == 30

----------------------------------------------------------------------------
(* ActionStateMachine *)

\* VALID_TRANSITIONS.get(state, []) as a set
VALID_TRANSITIONS_IdleToCap(state) ==
    CASE state = IDLE -> {BOTTLE_IN_HAND, CAP_OPENING, IDLE}
      [] state = BOTTLE_IN_HAND -> {CAP_OPENING, IDLE, BOTTLE_IN_HAND}
      [] state = CAP_OPENING -> {DRINKING, BOTTLE_IN_HAND, IDLE, CAP_OPENING}
      [] state = DRINKING -> {COMPLETED, IDLE, DRINKING}
      [] state = COMPLETED -> {IDLE, COMPLETED}
      [] state = UNCERTAIN -> {IDLE, BOTTLE_IN_HAND, CAP_OPENING, DRINKING}
      [] OTHER -> {}

\* A graph in which LidOpening may go straight to Completed
VALID_TRANSITIONS_CapToCompleted(state) ==
    CASE state = IDLE -> {BOTTLE_IN_HAND, IDLE}
      [] state = BOTTLE_IN_HAND -> {CAP_OPENING, IDLE, BOTTLE_IN_HAND}
      [] state = CAP_OPENING -> {DRINKING, COMPLETED, BOTTLE_IN_HAND, IDLE, CAP_OPENING}
      [] state = DRINKING -> {COMPLETED, IDLE, DRINKING}
      [] state = COMPLETED -> {IDLE, COMPLETED}
      [] state = UNCERTAIN -> {IDLE, BOTTLE_IN_HAND, CAP_OPENING, DRINKING}
      [] OTHER -> {}

VALID_TRANSITIONS(state) ==
    CASE state = IDLE -> {BOTTLE_IN_HAND, IDLE}
      [] state = BOTTLE_IN_HAND -> {CAP_OPENING, IDLE, BOTTLE_IN_HAND}
      [] state = CAP_OPENING -> {DRINKING, BOTTLE_IN_HAND, IDLE, CAP_OPENING}
      [] state = DRINKING -> {COMPLETED, IDLE, DRINKING}
      [] state = COMPLETED -> {IDLE, COMPLETED}
      [] state = UNCERTAIN -> {IDLE, BOTTLE_IN_HAND, CAP_OPENING, DRINKING}
      [] OTHER -> {}

SEQUENCE_STATES == <<BOTTLE_IN_HAND, CAP_OPENING, DRINKING>>

Range(seq) == {seq[i] : i \in DOMAIN seq}

Max(a, b) == IF a >= b THEN a ELSE b

\* TrackedPerson(track_id=track_id), created at time t
TrackedPerson(t) ==
    [current_state |-> IDLE,
     state_confidence |-> 0,
     consecutive_frames |-> 0,
     state_history |-> <<>>,
     sequence_started_at |-> <<>>,
     last_update |-> t,
     sequence_states |-> <<>>]

StateTransition(from_state, to_state, timestamp, confidence) ==
    [from_state |-> from_state, to_state |-> to_state,
     timestamp |-> timestamp, confidence |-> confidence]

\* get_or_create_person: the person update() works on
get_or_create_person(track_id) ==
    IF track_id \in DOMAIN tracked_persons
    THEN tracked_persons[track_id]
    ELSE TrackedPerson(now)

_reset_to_idle_KeepSequence(person) ==
    [person EXCEPT !.current_state = IDLE,
                   !.state_confidence = 0,
                   !.consecutive_frames = 0]

\* A reset that leaves the start timestamp of the sequence in place
_reset_to_idle_KeepStart(person) ==
    [person EXCEPT !.current_state = IDLE,
                   !.state_confidence = 0,
                   !.consecutive_frames = 0,
                   !.sequence_states = <<>>]

_reset_to_idle(person) ==
    [person EXCEPT !.current_state = IDLE,
                   !.state_confidence = 0,
                   !.consecutive_frames = 0,
                   !.sequence_started_at = <<>>,
                   !.sequence_states = <<>>]

RECURSIVE SumConfidence(_)
SumConfidence(transitions) ==
    IF transitions = <<>> THEN 0
    ELSE transitions[1].confidence + SumConfidence(Tail(transitions))

\* The whole history instead of its last five entries
RecentTransitions_All(state_history) == state_history

\* state_history[-5:]
RecentTransitions(state_history) ==
    IF Len(state_history) <= 5 THEN state_history
    ELSE SubSeq(state_history, Len(state_history) - 4, Len(state_history))

\* _create_event_data; the average confidence is the exact fraction num/den
\* (0/1 when there is no transition)
_create_event_data(track_id, person) ==
    LET recent_transitions == RecentTransitions(person.state_history) IN
    [track_id |-> track_id,
     start_ts |-> person.sequence_started_at,
     end_ts |-> now,
     sequence |-> person.sequence_states,
     confidence |->
        IF recent_transitions # <<>>
        THEN [num |-> SumConfidence(recent_transitions), den |-> Len(recent_transitions)]
        ELSE [num |-> 0, den |-> 1]]

\* update(): the branch taken for an uncertain detection
UncertainBranch_ResetsCounter(person) ==
    [person |-> [person EXCEPT !.consecutive_frames = 0],
     ret |-> <<person.current_state, FALSE, <<>>>>]

UncertainBranch(person) ==
    [person |-> person, ret |-> <<person.current_state, FALSE, <<>>>>]

\* update(): the branch taken when the current state is detected again
SameStateBranch(person, confidence) ==
    LET p == [person EXCEPT !.consecutive_frames = @ + 1,
                            !.state_confidence = Max(@, confidence)]
    IN [person |-> p, ret |-> <<p.current_state, FALSE, <<>>>>]

\* update(): the branch taken for a detection outside VALID_TRANSITIONS
InvalidTransitionBranch(person, detected_state, confidence) ==
    IF confidence > 90 /\ detected_state = IDLE
    THEN [person |-> _reset_to_idle(person), ret |-> <<IDLE, FALSE, <<>>>>]
    ELSE [person |-> person, ret |-> <<person.current_state, FALSE, <<>>>>]

\* update(): the confidence-threshold test
BelowThreshold_Inverted(confidence) == confidence > confidence_threshold

BelowThreshold(confidence) == confidence < confidence_threshold

\* update(): the branch taken when the confidence is below the threshold
LowConfidenceBranch_KeepsCounter(person) ==
    [person |-> person, ret |-> <<person.current_state, FALSE, <<>>>>]

LowConfidenceBranch(person) ==
    [person |-> [person EXCEPT !.consecutive_frames = 0],
     ret |-> <<person.current_state, FALSE, <<>>>>]

\* update(): "Track sequence progress"
TrackSequence_NoStart(person, old_state, detected_state) ==
    IF detected_state \in Range(SEQUENCE_STATES) /\ person.sequence_started_at # <<>>
    THEN IF detected_state \notin Range(person.sequence_states)
         THEN [person EXCEPT !.sequence_states = Append(@, detected_state)]
         ELSE person
    ELSE person

TrackSequence_Duplicates(person, old_state, detected_state) ==
    IF detected_state = BOTTLE_IN_HAND /\ old_state = IDLE
    THEN [person EXCEPT !.sequence_started_at = <<now>>,
                        !.sequence_states = <<detected_state>>]
    ELSE IF detected_state \in Range(SEQUENCE_STATES) /\ person.sequence_started_at # <<>>
    THEN [person EXCEPT !.sequence_states = Append(@, detected_state)]
    ELSE person

TrackSequence(person, old_state, detected_state) ==
    IF detected_state = BOTTLE_IN_HAND /\ old_state = IDLE
    THEN [person EXCEPT !.sequence_started_at = <<now>>,
                        !.sequence_states = <<detected_state>>]
    ELSE IF detected_state \in Range(SEQUENCE_STATES) /\ person.sequence_started_at # <<>>
    THEN IF detected_state \notin Range(person.sequence_states)
         THEN [person EXCEPT !.sequence_states = Append(@, detected_state)]
         ELSE person
    ELSE person

\* update(): "Check for completion"
IsCompletion_Drinking(detected_state) == detected_state = DRINKING

IsCompletion(detected_state) == detected_state = COMPLETED

\* update(): "Perform state transition" and everything after it
CommitBranch(track_id, person, detected_state, confidence) ==
    LET old_state == person.current_state
        p1 == [person EXCEPT !.current_state = detected_state,
                             !.state_confidence = confidence,
                             !.consecutive_frames = 1,
                             !.state_history =
                                 Append(@, StateTransition(old_state, detected_state,
                                                           now, confidence))]
        p2 == TrackSequence(p1, old_state, detected_state)
    IN IF IsCompletion(detected_state)
       THEN [person |-> _reset_to_idle(p2),
             ret |-> <<COMPLETED, TRUE, <<_create_event_data(track_id, p2)>>>>]
       ELSE IF detected_state = IDLE
       THEN [person |-> _reset_to_idle(p2), ret |-> <<IDLE, FALSE, <<>>>>]
       ELSE [person |-> p2, ret |-> <<p2.current_state, FALSE, <<>>>>]

\* update(): the person after the call and the returned tuple
update(track_id, detected_state, confidence) ==
    LET person == [get_or_create_person(track_id) EXCEPT !.last_update = now] IN
    IF detected_state = UNCERTAIN
    THEN UncertainBranch(person)
    ELSE IF detected_state = person.current_state
    THEN SameStateBranch(person, confidence)
    ELSE IF detected_state \notin VALID_TRANSITIONS(person.current_state)
    THEN InvalidTransitionBranch(person, detected_state, confidence)
    ELSE IF BelowThreshold(confidence)
    THEN LowConfidenceBranch(person)
    ELSE LET p == [person EXCEPT !.consecutive_frames = @ + 1] IN
         IF p.consecutive_frames < consecutive_frames_required
         THEN [person |-> p, ret |-> <<p.current_state, FALSE, <<>>>>]
         ELSE CommitBranch(track_id, p, detected_state, confidence)

\* cleanup_stale: the track ids it removes
StaleIds ==
    {track_id \in DOMAIN tracked_persons :
        now - tracked_persons[track_id].last_update > max_age_seconds}

----------------------------------------------------------------------------
(* RingBuffer (backend/app/core/ring_buffer.py) *)

max_frames == duration_seconds * fps

BufferedFrame(frame, timestamp, frame_id) ==
    [frame |-> frame, timestamp |-> timestamp, frame_id |-> frame_id]

\* deque(maxlen=...).append that never discards
DequeAppend_Unbounded(buf, maxlen, item) == Append(buf, item)

\* deque(maxlen=...).append that refuses the new item when full
DequeAppend_DropNew(buf, maxlen, item) ==
    IF Len(buf) >= maxlen THEN buf ELSE Append(buf, item)

\* deque(maxlen=...).append: a full deque discards its oldest item
DequeAppend(buf, maxlen, item) ==
    IF maxlen = 0 THEN buf
    ELSE IF Len(buf) >= maxlen THEN Append(Tail(buf), item)
    ELSE Append(buf, item)

\* get_frames_in_range with an exclusive upper end
get_frames_in_range_ExclusiveEnd(start_time, end_time) ==
    SelectSeq(_buffer, LAMBDA f : start_time <= f.timestamp /\ f.timestamp < end_time)

get_frames_in_range(start_time, end_time) ==
    SelectSeq(_buffer, LAMBDA f : start_time <= f.timestamp /\ f.timestamp <= end_time)

get_clip_frames(event_start, event_end, before_sec, after_sec) ==
    LET clip_start == event_start - before_sec
        clip_end == event_end + after_sec
    IN  get_frames_in_range(clip_start, clip_end)

\* RingBuffer.__init__
RingBuffer(d, f) ==
    /\ duration_seconds = d
    /\ fps = f
    /\ _buffer = <<>>
    /\ _frame_counter = 0
    /\ rb_call = <<>>
    /\ rb_ret = <<>>

\* The threads that call the ring buffer concurrently
Appenders == {"a1", "a2"}
Queriers == {"q1"}

\* The timestamps those threads pass
ThreadTimestamps == {0, 1}

\* No timed _detection_loop
NoGap ==
    /\ time_ms = 0
    /\ call_start = <<>>
    /\ sleep_until = <<>>
    /\ llm_calls = <<>>

\* No thread is calling the ring buffer
NoThreads ==
    /\ _lock = "free"
    /\ rb_threads = [t \in Appenders \cup Queriers |-> [pc |-> "idle", ret |-> <<>>]]

\* No start() call has been made and no loop task exists
NoTasks ==
    /\ start_pc = [c \in StartCalls |-> "idle"]
    /\ llm_of = 0
    /\ frame_loops = <<>>
    /\ detection_loops = <<>>

\* CameraManager(): no processor, no request under way
NoManager ==
    /\ _processors = <<>>
    /\ mgr_calls = [k \in ManagerCalls |-> [op |-> "none", pc |-> "idle", processor |-> 0]]
    /\ fp_status = [k \in ManagerCalls |-> "none"]

\* ConnectionManager(): no client has connected
NoSockets ==
    /\ active_connections = {}
    /\ _ws_callbacks = <<>>
    /\ ws_pc = [c \in Clients |-> "new"]
    /\ ws_tasks = <<>>
    /\ ws_received = [c \in Clients |-> <<>>]
    /\ ws_published = 0

NoServices == NoTasks /\ NoManager /\ NoSockets

----------------------------------------------------------------------------
(* Arbitration between the detectors (backend/app/core/frame_processor.py). *)
(* Confidences of detector results are in thousandths (0.45 is 450).        *)

_MOVENET_MIN_CONF == 450

ActionResult(state, confidence, signals) ==
    [state |-> state, confidence |-> confidence, signals |-> signals]

PersonDetection(track_id, action) == [track_id |-> track_id, action |-> action]

\* The PersonDetection YOLODetector.detect builds for a person
YoloPerson(track_id) == PersonDetection(track_id, ActionResult(IDLE, 0, "none"))

id_match(det, cached, n_persons) ==
    /\ cached # <<>>
    /\ (det.track_id = cached[1].track_id \/ n_persons = 1)

\* _pick_action without the agreement boost
_pick_action_NoBoost(det, movenet, llm, n_persons) ==
    LET mn_action == IF id_match(det, movenet, n_persons) THEN <<movenet[1].action>> ELSE <<>>
        llm_action == IF id_match(det, llm, n_persons) THEN <<llm[1].action>> ELSE <<>>
        Secondary == IF llm_action # <<>> THEN llm_action[1] ELSE det.action
    IN  IF mn_action # <<>> /\ mn_action[1].confidence >= _MOVENET_MIN_CONF
        THEN IF mn_action[1].state \in {CAP_OPENING, DRINKING}
             THEN IF mn_action[1].confidence >= 600 THEN mn_action[1] ELSE Secondary
             ELSE mn_action[1]
        ELSE Secondary

_pick_action(det, movenet, llm, n_persons) ==
    LET mn_action == IF id_match(det, movenet, n_persons) THEN <<movenet[1].action>> ELSE <<>>
        llm_action == IF id_match(det, llm, n_persons) THEN <<llm[1].action>> ELSE <<>>
        \* "LLM secondary", then "Default: IDLE from YOLO detection"
        Secondary == IF llm_action # <<>> THEN llm_action[1] ELSE det.action
    IN  IF mn_action # <<>> /\ mn_action[1].confidence >= _MOVENET_MIN_CONF
        THEN IF mn_action[1].state \in {CAP_OPENING, DRINKING}
             THEN IF llm_action # <<>> /\ llm_action[1].state = mn_action[1].state
                  THEN LET sum == mn_action[1].confidence + llm_action[1].confidence
                           boosted_conf == IF sum \div 2 + 100 <= 1000
                                           THEN sum \div 2 + 100 ELSE 1000
                       IN  ActionResult(mn_action[1].state, boosted_conf,
                                        mn_action[1].signals)
                  ELSE IF mn_action[1].confidence >= 600
                       THEN mn_action[1]
                       ELSE Secondary
             ELSE mn_action[1]
        ELSE Secondary

----------------------------------------------------------------------------
(* FrameProcessor (backend/app/core/frame_processor.py): the two loops.     *)

\* The states the vision LLM can answer: every value of the enum
LlmStates == ActionState

ring_buffer_duration_sec == 30
detection_interval_ms == 500
default_fps == 15
clip_before_sec == 10
clip_after_sec == 10

\* What _latest_yolo_detections holds: the list it is initialised with, or the
\* pair (person_detections, standalone_objects) that YOLODetector.detect returns
YoloList(persons) == [kind |-> "list", persons |-> persons]
YoloPair(persons) == [kind |-> "pair", persons |-> persons]

\* Python truth value of such a value: a pair is never empty
Truthy(yolo_dets) == yolo_dets.kind = "pair" \/ yolo_dets.persons # <<>>

\* Confidence of a detector result (thousandths) as the state machine takes it
\* (hundredths)
ToPercent(confidence) == confidence \div 10

\* _merge_detections.  Iterating over a pair hands _pick_action a list as det,
\* and det.track_id / det.action raise AttributeError.
_merge_detections(yolo_dets, movenet, llm) ==
    IF ~Truthy(yolo_dets)
    THEN [raised |-> FALSE, merged |-> IF movenet # <<>> THEN movenet ELSE llm]
    ELSE IF yolo_dets.kind = "pair"
    THEN [raised |-> TRUE, merged |-> <<>>]
    ELSE [raised |-> FALSE,
          merged |-> [i \in 1..Len(yolo_dets.persons) |->
                        PersonDetection(yolo_dets.persons[i].track_id,
                                        _pick_action(yolo_dets.persons[i], movenet, llm,
                                                     Len(yolo_dets.persons)))]]

\* FrameProcessor.__init__
FrameProcessor ==
    /\ _running = FALSE
    /\ _status = "stopped"
    /\ _capture = "None"
    /\ _llm = "None"
    /\ _movenet_active = FALSE
    /\ _latest_raw_frame = <<>>
    /\ _latest_yolo_detections = YoloList(<<>>)
    /\ _last_movenet_detection = <<>>
    /\ _last_llm_detection = <<>>
    /\ _last_detection_time = 0
    /\ frame_pc = "none"
    /\ detect_pc = "none"
    /\ stop_pc = "idle"
    /\ start_ret = <<>>
    /\ tick_log = <<>>
    /\ det_log = <<>>
    /\ tasks = <<>>
    /\ handled = <<>>

----------------------------------------------------------------------------
(* VisionLLMDetector: what detect and detect_action make of the API request *)

\* The state labels an answer can carry: the enum values, one of them
\* capitalised, a word that is no state, and null (or no "state" key)
LlmLabels == ActionState \cup {"Drinking", "sipping", "null"}

\* The confidences an answer can carry, in thousandths; 1500 is out of range
LlmAnswerConfidences == {0, 450, 900, 1500}

\* What the API request gives back: it raises, or the message content is
\* text that is not JSON, or it is a JSON object
LlmOutputs ==
    {[kind |-> "raised"], [kind |-> "text"]} \cup
    {[kind |-> "json", state |-> label, confidence |-> c] :
        label \in LlmLabels, c \in LlmAnswerConfidences}

\* _parse_response: the parsed object, or idle/0.0 on JSONDecodeError
_parse_response(output) ==
    IF output.kind = "json"
    THEN [state |-> output.state, confidence |-> output.confidence]
    ELSE [state |-> "idle", confidence |-> 0]

\* str.lower
Lower(raw) == IF raw = "Drinking" THEN "drinking" ELSE raw

\* _parse_state: ActionState(raw.lower()), IDLE on ValueError
_parse_state(raw) == IF Lower(raw) \in ActionState THEN Lower(raw) ELSE IDLE

\* result.get("state") or "idle"
StateOrIdle(result) == IF result.state = "null" THEN "idle" ELSE result.state

\* detect_action: the pair (state, confidence)
detect_action(output) ==
    IF output.kind = "raised" THEN <<UNCERTAIN, 0>>
    ELSE LET result == _parse_response(output) IN
         <<_parse_state(StateOrIdle(result)), result.confidence>>

\* detect: a PersonDetection for track id 0.  ActionResult rejects a
\* confidence outside [0, 1] and the exception is caught with the others.
detect(output) ==
    IF output.kind = "raised" THEN PersonDetection(0, ActionResult(UNCERTAIN, 0, "confirm"))
    ELSE LET result == _parse_response(output) IN
         IF result.confidence > 1000
         THEN PersonDetection(0, ActionResult(UNCERTAIN, 0, "confirm"))
         ELSE PersonDetection(0, ActionResult(_parse_state(StateOrIdle(result)),
                                              result.confidence, "confirm"))

\* No call of the detector on its own
NoLlmCall == llm_call = <<>> /\ llm_ret = <<>>

----------------------------------------------------------------------------
(* BufferedCapture *)

\* The maxsize of the queue
buffer_size == 2

\* queue.Queue.full
full(q) == Len(q) >= buffer_size

\* BufferedCapture.__init__ and start(): the queue is empty and the capture
\* thread is at the top of its loop
BufferedCapture ==
    /\ bc_buffer = <<>>
    /\ bc_thread = [pc |-> "read"]
    /\ bc_captured = 0
    /\ bc_got = <<>>

\* No BufferedCapture on its own
NoCapture ==
    /\ bc_buffer = <<>>
    /\ bc_thread = [pc |-> "none"]
    /\ bc_captured = 0
    /\ bc_got = <<>>

----------------------------------------------------------------------------
(* Actions *)

\* ActionStateMachine.__init__
ActionStateMachine ==
    /\ tracked_persons = <<>>
    /\ now = 0
    /\ call = <<>>
    /\ ret = <<>>

\* No call of _pick_action is being looked at
NoPickAction ==
    /\ pa_det = <<>>
    /\ pa_movenet = <<>>
    /\ pa_llm = <<>>
    /\ pa_n_persons = 0
    /\ pa_ret = <<>>

Init ==
    /\ ActionStateMachine
    /\ RingBuffer(1, 1)
    /\ NoPickAction
    /\ NoLlmCall
    /\ NoCapture
    /\ NoThreads
    /\ NoServices
    /\ NoGap
    /\ FrameProcessor

\* One call of ActionStateMachine.update
\* An update that also clears the counter of every other subject
Update_ResetsOthers(track_id, detected_state, confidence) ==
    LET r == update(track_id, detected_state, confidence) IN
    /\ r.person.consecutive_frames <= MaxFrames
    /\ Len(r.person.state_history) <= MaxHistory
    /\ tracked_persons' =
          [t \in DOMAIN tracked_persons \cup {track_id} |->
              IF t = track_id THEN r.person
              ELSE [tracked_persons[t] EXCEPT !.consecutive_frames = 0]]
    /\ call' = <<[track_id |-> track_id, detected_state |-> detected_state,
                  confidence |-> confidence]>>
    /\ ret' = <<r.ret>>
    /\ UNCHANGED now
    /\ UNCHANGED <<rbVars, paVars, unitVars, fpVars>>

Update(track_id, detected_state, confidence) ==
    LET r == update(track_id, detected_state, confidence) IN
    /\ r.person.consecutive_frames <= MaxFrames
    /\ Len(r.person.state_history) <= MaxHistory
    /\ tracked_persons' =
          [t \in DOMAIN tracked_persons \cup {track_id} |->
              IF t = track_id THEN r.person ELSE tracked_persons[t]]
    /\ call' = <<[track_id |-> track_id, detected_state |-> detected_state,
                  confidence |-> confidence]>>
    /\ ret' = <<r.ret>>
    /\ UNCHANGED now
    /\ UNCHANGED <<rbVars, paVars, unitVars, fpVars>>

\* What the detectors report for a subject.  update tells a confidence above
\* 0.9 from the other confidences that reach the threshold only when the
\* detected state is IDLE, so 0.95 is reported for IDLE alone.
Detections ==
    {d \in ActionState \X Confidences : d[2] > 90 => d[1] = IDLE}

UpdateCall ==
    \E track_id \in TrackIds, d \in Detections :
        Update(track_id, d[1], d[2])

\* One call of ActionStateMachine.cleanup_stale
CleanupStale ==
    /\ tracked_persons' =
          [t \in DOMAIN tracked_persons \ StaleIds |-> tracked_persons[t]]
    /\ UNCHANGED <<now, call, ret>>
    /\ UNCHANGED <<rbVars, paVars, unitVars, fpVars>>

\* Time passes
Tick ==
    /\ \E d \in TickSteps :
          /\ now + d <= MaxTime
          /\ now' = now + d
    /\ UNCHANGED <<tracked_persons, call, ret>>
    /\ UNCHANGED <<rbVars, paVars, unitVars, fpVars>>

Next == UpdateCall \/ CleanupStale \/ Tick

Spec == Init /\ [][Next]_vars

\* The same machine driven with the confidences of the debounce scenario
ScenarioUpdateCall ==
    \E track_id \in TrackIds, detected_state \in ActionState,
       confidence \in ScenarioConfidences :
        Update(track_id, detected_state, confidence)

NextScenario == ScenarioUpdateCall \/ CleanupStale \/ Tick

SpecScenario == Init /\ [][NextScenario]_vars

\* The same machine driven by one subject that goes through the drinking
\* sequence again and again, so that its state_history grows past five entries
RepeatUpdateCall ==
    \E detected_state \in Range(SEQUENCE_STATES) \cup {COMPLETED},
       confidence \in RepeatConfidences :
        LET r == update(1, detected_state, confidence) IN
        /\ r.person.consecutive_frames <= MaxFrames
        /\ Len(r.person.state_history) <= MaxLongHistory
        /\ tracked_persons' =
              [t \in DOMAIN tracked_persons \cup {1} |->
                  IF t = 1 THEN r.person ELSE tracked_persons[t]]
        /\ call' = <<[track_id |-> 1, detected_state |-> detected_state,
                      confidence |-> confidence]>>
        /\ ret' = <<r.ret>>
        /\ UNCHANGED now
        /\ UNCHANGED <<rbVars, paVars, unitVars, fpVars>>

NextRepeat == RepeatUpdateCall

SpecRepeat == Init /\ [][NextRepeat]_vars

----------------------------------------------------------------------------
(* The WebSocket clients of one camera (api/websocket.py) and the callbacks  *)
(* the CameraManager keeps for them                                         *)

notWsVars == <<smVars, rbVars, paVars, llmVars, bcVars, lockVars, gapVars, fpVars,
               taskVars, mgrVars>>

\* seq without its i-th element
RemoveAt(seq, i) == SubSeq(seq, 1, i - 1) \o SubSeq(seq, i + 1, Len(seq))

\* A ConnectionManager.broadcast(camera_id, message) task that has not run yet
BroadcastTask(message) ==
    [message |-> message, started |-> FALSE, size |-> 0, sent |-> {},
     disconnected |-> {}]

\* camera_websocket up to its wait for incoming messages: the connection is
\* accepted and added to the set, and the client's on_detection callback is
\* appended to the manager's list
WsConnect(c) ==
    /\ ws_pc[c] = "new"
    /\ active_connections' = active_connections \cup {c}
    /\ _ws_callbacks' = Append(_ws_callbacks, c)
    /\ ws_pc' = [ws_pc EXCEPT ![c] = "open"]
    /\ UNCHANGED <<ws_tasks, ws_received, ws_published>>
    /\ UNCHANGED notWsVars

\* camera_websocket's finally block after the client went away: the callback
\* is removed from the list and the connection from the set
WsDisconnect(c) ==
    /\ ws_pc[c] = "open"
    /\ _ws_callbacks' = SelectSeq(_ws_callbacks, LAMBDA x : x # c)
    /\ active_connections' = active_connections \ {c}
    /\ ws_pc' = [ws_pc EXCEPT ![c] = "closed"]
    /\ UNCHANGED <<ws_tasks, ws_received, ws_published>>
    /\ UNCHANGED notWsVars

\* The fast loop publishes a frame: _broadcast_detection calls every callback
\* of the camera, and each on_detection creates one broadcast task
Publish ==
    /\ ws_published < MaxPublished
    /\ ws_published' = ws_published + 1
    /\ ws_tasks' = ws_tasks \o
          [i \in 1..Len(_ws_callbacks) |-> BroadcastTask(ws_published')]
    /\ UNCHANGED <<active_connections, _ws_callbacks, ws_pc, ws_received>>
    /\ UNCHANGED notWsVars

\* A broadcast task starts: it returns if the camera has no connection, and
\* begins to iterate over the set of connections otherwise
BroadcastStart(i) ==
    /\ i \in 1..Len(ws_tasks)
    /\ ~ws_tasks[i].started
    /\ ws_tasks' =
          IF active_connections = {}
          THEN RemoveAt(ws_tasks, i)
          ELSE [ws_tasks EXCEPT ![i].started = TRUE,
                                ![i].size = Cardinality(active_connections)]
    /\ UNCHANGED <<active_connections, _ws_callbacks, ws_pc, ws_received, ws_published>>
    /\ UNCHANGED notWsVars

\* A broadcast task goes on after an await: the iteration raises RuntimeError
\* if the set changed size; otherwise the message is sent to the next
\* connection, which receives it or whose send_text raises; after the last
\* one the connections that raised are discarded
BroadcastSend(i) ==
    /\ i \in 1..Len(ws_tasks)
    /\ ws_tasks[i].started
    /\ LET task == ws_tasks[i]
           todo == active_connections \ task.sent
       IN  IF Cardinality(active_connections) # task.size
           THEN /\ ws_tasks' = RemoveAt(ws_tasks, i)
                /\ UNCHANGED <<active_connections, ws_received>>
           ELSE IF todo = {}
           THEN /\ ws_tasks' = RemoveAt(ws_tasks, i)
                /\ active_connections' = active_connections \ task.disconnected
                /\ UNCHANGED ws_received
           ELSE \E c \in todo, ok \in BOOLEAN :
                /\ ws_tasks' =
                      [ws_tasks EXCEPT ![i].sent = @ \cup {c},
                                       ![i].disconnected =
                                           IF ok THEN @ ELSE @ \cup {c}]
                /\ ws_received' =
                      IF ok
                      THEN [ws_received EXCEPT ![c] = Append(@, task.message)]
                      ELSE ws_received
                /\ UNCHANGED active_connections
    /\ UNCHANGED <<_ws_callbacks, ws_pc, ws_published>>
    /\ UNCHANGED notWsVars

NextSockets ==
    \/ \E c \in Clients : WsConnect(c)
    \/ \E c \in Clients : WsDisconnect(c)
    \/ Publish
    \/ \E i \in 1..(MaxClients * MaxPublished) : BroadcastStart(i)
    \/ \E i \in 1..(MaxClients * MaxPublished) : BroadcastSend(i)

SpecSockets == Init /\ [][NextSockets]_vars

----------------------------------------------------------------------------
(* CameraManager: start_camera and stop_camera requests for one camera id  *)
(* (services/camera_manager.py).  A FrameProcessor is "created", "starting" *)
(* (inside start(), before _running is set), "live", "error" or "stopped".  *)

notMgrVars == <<smVars, rbVars, paVars, llmVars, bcVars, lockVars, gapVars, fpVars,
                taskVars, wsVars>>

\* The processors whose loops are running
RunningProcessors == {p \in ManagerCalls : fp_status[p] = "live"}

\* start_camera up to its await of get_camera
MgrStartCall(k) ==
    /\ mgr_calls[k].pc = "idle"
    /\ mgr_calls' =
          [mgr_calls EXCEPT ![k] =
              IF _processors # <<>>
              THEN [op |-> "start_camera", pc |-> "returned", processor |-> 0]
              ELSE [op |-> "start_camera", pc |-> "lookup", processor |-> 0]]
    /\ UNCHANGED <<_processors, fp_status>>
    /\ UNCHANGED notMgrVars

\* start_camera after get_camera: without a camera row it returns False;
\* otherwise it creates a FrameProcessor and calls its start(), which returns
\* False at once when the capture does not open and awaits the model loading
\* otherwise
MgrStartLookedUp(k) ==
    /\ mgr_calls[k].op = "start_camera"
    /\ mgr_calls[k].pc = "lookup"
    /\ \E camera \in BOOLEAN, opened \in BOOLEAN :
          IF ~camera
          THEN /\ opened
               /\ mgr_calls' = [mgr_calls EXCEPT ![k].pc = "returned"]
               /\ UNCHANGED fp_status
          ELSE /\ mgr_calls' = [mgr_calls EXCEPT ![k].processor = k,
                                                 ![k].pc = IF opened THEN "starting"
                                                           ELSE "status"]
               /\ fp_status' = [fp_status EXCEPT ![k] = IF opened THEN "starting"
                                                       ELSE "error"]
    /\ UNCHANGED _processors
    /\ UNCHANGED notMgrVars

\* start_camera when processor.start() returns True: the processor is running
\* and is put into the table
MgrStartStarted(k) ==
    /\ mgr_calls[k].op = "start_camera"
    /\ mgr_calls[k].pc = "starting"
    /\ fp_status' = [fp_status EXCEPT ![k] = "live"]
    /\ _processors' = <<k>>
    /\ mgr_calls' = [mgr_calls EXCEPT ![k].pc = "status"]
    /\ UNCHANGED notMgrVars

\* start_camera or stop_camera returns after _update_camera_status
MgrReturn(k) ==
    /\ mgr_calls[k].pc = "status"
    /\ mgr_calls' = [mgr_calls EXCEPT ![k].pc = "returned"]
    /\ UNCHANGED <<_processors, fp_status>>
    /\ UNCHANGED notMgrVars

\* stop_camera up to its first await: without a processor in the table it
\* returns; otherwise it calls stop() on the processor of the table, which
\* clears _running and awaits the closing of the LLM client if there is one
MgrStopCall(k) ==
    /\ mgr_calls[k].pc = "idle"
    /\ IF _processors = <<>>
       THEN /\ mgr_calls' = [mgr_calls EXCEPT ![k] =
                   [op |-> "stop_camera", pc |-> "returned", processor |-> 0]]
            /\ UNCHANGED <<_processors, fp_status>>
       ELSE LET processor == _processors[1] IN
            \E client \in BOOLEAN :
               /\ client => fp_status[processor] = "live"
               /\ fp_status' = [fp_status EXCEPT ![processor] = "stopped"]
               /\ IF client
                  THEN /\ mgr_calls' = [mgr_calls EXCEPT ![k] =
                              [op |-> "stop_camera", pc |-> "stopping",
                               processor |-> processor]]
                       /\ UNCHANGED _processors
                  ELSE /\ mgr_calls' = [mgr_calls EXCEPT ![k] =
                              [op |-> "stop_camera", pc |-> "status",
                               processor |-> processor]]
                       /\ _processors' = <<>>
    /\ UNCHANGED notMgrVars

\* stop_camera after processor.stop(): del self._processors[camera_id], which
\* raises KeyError when the entry is gone and otherwise removes whatever
\* processor is in the table by now
MgrStopStopped(k) ==
    /\ mgr_calls[k].op = "stop_camera"
    /\ mgr_calls[k].pc = "stopping"
    /\ mgr_calls' = [mgr_calls EXCEPT ![k].pc = IF _processors = <<>> THEN "raised"
                                                ELSE "status"]
    /\ _processors' = <<>>
    /\ UNCHANGED fp_status
    /\ UNCHANGED notMgrVars

NextManager ==
    \/ \E k \in ManagerCalls : MgrStartCall(k)
    \/ \E k \in ManagerCalls : MgrStartLookedUp(k)
    \/ \E k \in ManagerCalls : MgrStartStarted(k)
    \/ \E k \in ManagerCalls : MgrReturn(k)
    \/ \E k \in ManagerCalls : MgrStopCall(k)
    \/ \E k \in ManagerCalls : MgrStopStopped(k)

SpecManager == Init /\ [][NextManager]_vars

----------------------------------------------------------------------------
(* Two subjects tracked by one state machine *)

\* update is called for either of two subjects
SubjectsUpdateCall ==
    \E track_id \in SubjectIds, detected_state \in ActionState,
       confidence \in SubjectConfidences :
        Update(track_id, detected_state, confidence)

NextSubjects == SubjectsUpdateCall

SpecSubjects == Init /\ [][NextSubjects]_vars

----------------------------------------------------------------------------
(* The ring buffer on its own *)

InitRing ==
    /\ ActionStateMachine
    /\ \E d \in Durations, f \in FpsValues : RingBuffer(d, f)
    /\ NoPickAction
    /\ NoLlmCall
    /\ NoCapture
    /\ NoThreads
    /\ NoServices
    /\ NoGap
    /\ FrameProcessor

\* RingBuffer.add_frame: what it does to the ring buffer
add_frame(frame, timestamp) ==
    /\ _frame_counter < MaxAppends
    /\ _frame_counter' = _frame_counter + 1
    /\ _buffer' = DequeAppend(_buffer, max_frames,
                              BufferedFrame(frame, timestamp, _frame_counter'))
    /\ rb_call' = <<[op |-> "add_frame", frame |-> frame, timestamp |-> timestamp]>>
    /\ rb_ret' = <<_frame_counter'>>
    /\ UNCHANGED <<duration_seconds, fps>>

\* One call of RingBuffer.add_frame
AddFrame(frame, timestamp) ==
    /\ add_frame(frame, timestamp)
    /\ UNCHANGED <<smVars, paVars, unitVars, fpVars>>

AddFrameCall == \E frame \in Frames, timestamp \in Timestamps : AddFrame(frame, timestamp)

\* One call of RingBuffer.get_frames_in_range
GetFramesInRange ==
    /\ \E start_time \in Timestamps, end_time \in Timestamps :
          /\ rb_call' = <<[op |-> "get_frames_in_range", start_time |-> start_time,
                           end_time |-> end_time]>>
          /\ rb_ret' = <<get_frames_in_range(start_time, end_time)>>
    /\ UNCHANGED <<duration_seconds, fps, _buffer, _frame_counter>>
    /\ UNCHANGED <<smVars, paVars, unitVars, fpVars>>

\* One call of RingBuffer.get_clip_frames
GetClipFrames ==
    /\ \E event_start \in Timestamps, event_end \in Timestamps,
          before_sec \in PadSeconds, after_sec \in PadSeconds :
          /\ event_start <= event_end
          /\ rb_call' = <<[op |-> "get_clip_frames", event_start |-> event_start,
                           event_end |-> event_end, before_sec |-> before_sec,
                           after_sec |-> after_sec]>>
          /\ rb_ret' = <<get_clip_frames(event_start, event_end, before_sec, after_sec)>>
    /\ UNCHANGED <<duration_seconds, fps, _buffer, _frame_counter>>
    /\ UNCHANGED <<smVars, paVars, unitVars, fpVars>>

\* One call of RingBuffer.clear
Clear ==
    /\ _buffer' = <<>>
    /\ _frame_counter' = 0
    /\ rb_call' = <<[op |-> "clear"]>>
    /\ rb_ret' = <<>>
    /\ UNCHANGED <<duration_seconds, fps>>
    /\ UNCHANGED <<smVars, paVars, unitVars, fpVars>>

NextRing == AddFrameCall \/ GetFramesInRange \/ GetClipFrames \/ Clear

SpecRing == InitRing /\ [][NextRing]_vars

----------------------------------------------------------------------------
(* _pick_action on its own: the arguments are drawn, then it is applied *)

InitPickAction ==
    /\ ActionStateMachine
    /\ RingBuffer(1, 1)
    /\ pa_det \in {<<YoloPerson(t)>> : t \in ArbTrackIds}
    /\ pa_movenet \in {<<>>} \cup
          {<<PersonDetection(t, ActionResult(st, c, "pose"))>> :
              t \in ArbTrackIds, st \in ActionState, c \in ArbConfidences}
    /\ pa_llm \in {<<>>} \cup
          {<<PersonDetection(t, ActionResult(st, c, "confirm"))>> :
              t \in ArbTrackIds, st \in ActionState, c \in ArbConfidences}
    /\ pa_n_persons \in 1..2
    /\ pa_ret = <<>>
    /\ NoLlmCall
    /\ NoCapture
    /\ NoThreads
    /\ NoServices
    /\ NoGap
    /\ FrameProcessor

PickAction ==
    /\ pa_ret = <<>>
    /\ pa_ret' = <<_pick_action(pa_det[1], pa_movenet, pa_llm, pa_n_persons)>>
    /\ UNCHANGED <<pa_det, pa_movenet, pa_llm, pa_n_persons>>
    /\ UNCHANGED <<smVars, rbVars, unitVars, fpVars>>

NextPickAction == PickAction

SpecPickAction == InitPickAction /\ [][NextPickAction]_vars

----------------------------------------------------------------------------
(* The ring buffer called from several threads: two call add_frame, one    *)
(* calls get_frames_in_range.  A step is one read or write of a field of   *)
(* the buffer; the statements of a with self._lock block run between the   *)
(* step that acquires the lock and the step that releases it.              *)

InitThreads ==
    /\ ActionStateMachine
    /\ RingBuffer(1, 2)
    /\ NoPickAction
    /\ NoLlmCall
    /\ NoCapture
    /\ NoThreads
    /\ NoServices
    /\ NoGap
    /\ FrameProcessor

\* add_frame calls that have not yet stored the counter
PendingAdds ==
    Cardinality({a \in Appenders : rb_threads[a].pc \in {"lock", "load", "store"}})

\* A thread calls add_frame(frame, timestamp)
AddFrameBegin(t) ==
    /\ rb_threads[t].pc = "idle"
    /\ _frame_counter + PendingAdds < MaxAppends
    /\ \E timestamp \in ThreadTimestamps :
          rb_threads' = [rb_threads EXCEPT ![t] =
                            [pc |-> "lock", op |-> "add_frame",
                             timestamp |-> timestamp, ret |-> <<>>]]
    /\ UNCHANGED _lock
    /\ UNCHANGED <<smVars, rbVars, paVars, llmVars, bcVars, gapVars, fpVars, extVars>>

\* A thread calls get_frames_in_range(start_time, end_time); seen collects
\* every value the buffer has between the call and its return
GetFramesInRangeBegin(t) ==
    /\ rb_threads[t].pc = "idle"
    /\ \E start_time \in ThreadTimestamps, end_time \in ThreadTimestamps :
          /\ start_time <= end_time
          /\ rb_threads' = [rb_threads EXCEPT ![t] =
                                [pc |-> "lock", op |-> "get_frames_in_range",
                                 start_time |-> start_time, end_time |-> end_time,
                                 seen |-> {_buffer}, ret |-> <<>>]]
    /\ UNCHANGED _lock
    /\ UNCHANGED <<smVars, rbVars, paVars, llmVars, bcVars, gapVars, fpVars, extVars>>

\* with self._lock entered without waiting for the lock
Acquire_NoLock(t) ==
    /\ rb_threads[t].pc = "lock"
    /\ _lock' = t
    /\ rb_threads' = [rb_threads EXCEPT ![t] =
          IF @.op = "add_frame"
          THEN [pc |-> "load", op |-> @.op, timestamp |-> @.timestamp, ret |-> <<>>]
          ELSE [pc |-> "scan", op |-> @.op, start_time |-> @.start_time,
                end_time |-> @.end_time, seen |-> @.seen, i |-> 1, frames |-> <<>>,
                ret |-> <<>>]]
    /\ UNCHANGED <<smVars, rbVars, paVars, llmVars, bcVars, gapVars, fpVars, extVars>>

\* with self._lock: the thread gets the lock when it is free
Acquire(t) ==
    /\ rb_threads[t].pc = "lock"
    /\ _lock = "free"
    /\ _lock' = t
    /\ rb_threads' = [rb_threads EXCEPT ![t] =
          IF @.op = "add_frame"
          THEN [pc |-> "load", op |-> @.op, timestamp |-> @.timestamp, ret |-> <<>>]
          ELSE [pc |-> "scan", op |-> @.op, start_time |-> @.start_time,
                end_time |-> @.end_time, seen |-> @.seen, i |-> 1, frames |-> <<>>,
                ret |-> <<>>]]
    /\ UNCHANGED <<smVars, rbVars, paVars, llmVars, bcVars, gapVars, fpVars, extVars>>

\* self._frame_counter += 1: the counter is read
AddFrameLoad(t) ==
    /\ rb_threads[t].pc = "load"
    /\ rb_threads' = [rb_threads EXCEPT ![t] =
          [pc |-> "store", op |-> @.op, timestamp |-> @.timestamp,
           counter |-> _frame_counter, ret |-> <<>>]]
    /\ UNCHANGED _lock
    /\ UNCHANGED <<smVars, rbVars, paVars, llmVars, bcVars, gapVars, fpVars, extVars>>

\* self._frame_counter += 1: the sum is stored
AddFrameStore(t) ==
    /\ rb_threads[t].pc = "store"
    /\ _frame_counter' = rb_threads[t].counter + 1
    /\ rb_threads' = [rb_threads EXCEPT ![t] =
          [pc |-> "append", op |-> @.op, timestamp |-> @.timestamp, ret |-> <<>>]]
    /\ UNCHANGED <<duration_seconds, fps, _buffer, rb_call, rb_ret>>
    /\ UNCHANGED _lock
    /\ UNCHANGED <<smVars, paVars, llmVars, bcVars, gapVars, fpVars, extVars>>

\* The BufferedFrame is built with the counter as its id and appended, and
\* the counter is what the call will return
AddFrameAppend(t) ==
    /\ rb_threads[t].pc = "append"
    /\ _buffer' = DequeAppend(_buffer, max_frames,
                              BufferedFrame("img", rb_threads[t].timestamp,
                                            _frame_counter))
    /\ rb_threads' =
          [u \in DOMAIN rb_threads |->
              IF u = t
              THEN [pc |-> "unlock", op |-> rb_threads[t].op,
                    ret |-> <<_frame_counter>>]
              ELSE IF rb_threads[u].pc \in {"lock", "scan", "unlock"}
                      /\ rb_threads[u].op = "get_frames_in_range"
              THEN [rb_threads[u] EXCEPT !.seen = @ \cup {_buffer'}]
              ELSE rb_threads[u]]
    /\ UNCHANGED <<duration_seconds, fps, _frame_counter, rb_call, rb_ret>>
    /\ UNCHANGED _lock
    /\ UNCHANGED <<smVars, paVars, llmVars, bcVars, gapVars, fpVars, extVars>>

\* [f for f in self._buffer if start_time <= f.timestamp <= end_time]: the
\* iteration looks at the next entry, or ends
GetFramesInRangeScan(t) ==
    /\ rb_threads[t].pc = "scan"
    /\ LET th == rb_threads[t] IN
       rb_threads' = [rb_threads EXCEPT ![t] =
          IF th.i > Len(_buffer)
          THEN [pc |-> "unlock", op |-> th.op, start_time |-> th.start_time,
                end_time |-> th.end_time, seen |-> th.seen, ret |-> <<th.frames>>]
          ELSE [th EXCEPT !.i = @ + 1,
                          !.frames = IF /\ th.start_time <= _buffer[th.i].timestamp
                                        /\ _buffer[th.i].timestamp <= th.end_time
                                     THEN Append(@, _buffer[th.i]) ELSE @]]
    /\ UNCHANGED _lock
    /\ UNCHANGED <<smVars, rbVars, paVars, llmVars, bcVars, gapVars, fpVars, extVars>>

\* The with block is left, the lock is released and the call returns
Release(t) ==
    /\ rb_threads[t].pc = "unlock"
    /\ _lock' = "free"
    /\ rb_threads' = [rb_threads EXCEPT ![t] = [@ EXCEPT !.pc = "idle"]]
    /\ UNCHANGED <<smVars, rbVars, paVars, llmVars, bcVars, gapVars, fpVars, extVars>>

NextThreads ==
    \/ \E t \in Appenders : AddFrameBegin(t)
    \/ \E t \in Queriers : GetFramesInRangeBegin(t)
    \/ \E t \in Appenders \cup Queriers : Acquire(t)
    \/ \E t \in Appenders : AddFrameLoad(t)
    \/ \E t \in Appenders : AddFrameStore(t)
    \/ \E t \in Appenders : AddFrameAppend(t)
    \/ \E t \in Queriers : GetFramesInRangeScan(t)
    \/ \E t \in Appenders \cup Queriers : Release(t)

SpecThreads == InitThreads /\ [][NextThreads]_vars

----------------------------------------------------------------------------
(* VisionLLMDetector on its own: one call of detect or detect_action with  *)
(* what the API request gave back                                           *)

InitLlm ==
    /\ ActionStateMachine
    /\ RingBuffer(1, 1)
    /\ NoPickAction
    /\ llm_call \in {<<[api |-> api, output |-> output]>> :
                        api \in {"detect", "detect_action"}, output \in LlmOutputs}
    /\ llm_ret = <<>>
    /\ NoCapture
    /\ NoThreads
    /\ NoServices
    /\ NoGap
    /\ FrameProcessor

LlmCall ==
    /\ llm_ret = <<>>
    /\ llm_ret' = <<IF llm_call[1].api = "detect"
                     THEN detect(llm_call[1].output)
                     ELSE detect_action(llm_call[1].output)>>
    /\ UNCHANGED llm_call
    /\ UNCHANGED <<smVars, rbVars, paVars, bcVars, lockVars, gapVars, fpVars, extVars>>

NextLlm == LlmCall

SpecLlm == InitLlm /\ [][NextLlm]_vars

----------------------------------------------------------------------------
(* BufferedCapture on its own: the capture thread and a caller of          *)
(* get_frame.  Frames are numbered in the order the inner capture delivers *)
(* them.  Each method of queue.Queue is one step: it runs under the queue's *)
(* mutex.                                                                   *)

InitCapture ==
    /\ ActionStateMachine
    /\ RingBuffer(1, 1)
    /\ NoPickAction
    /\ NoLlmCall
    /\ BufferedCapture
    /\ NoThreads
    /\ NoServices
    /\ NoGap
    /\ FrameProcessor

\* _capture_loop: the inner capture has no frame; time.sleep(0.005)
CaptureLoopNoFrame ==
    /\ bc_thread.pc = "read"
    /\ bc_thread' = [pc |-> "sleep"]
    /\ UNCHANGED <<bc_buffer, bc_captured, bc_got>>
    /\ UNCHANGED <<smVars, rbVars, paVars, llmVars, lockVars, gapVars, fpVars, extVars>>

\* _capture_loop: the sleep is over
CaptureLoopWake ==
    /\ bc_thread.pc = "sleep"
    /\ bc_thread' = [pc |-> "read"]
    /\ UNCHANGED <<bc_buffer, bc_captured, bc_got>>
    /\ UNCHANGED <<smVars, rbVars, paVars, llmVars, lockVars, gapVars, fpVars, extVars>>

\* _capture_loop: the inner capture delivers the next frame
CaptureLoopRead ==
    /\ bc_thread.pc = "read"
    /\ bc_captured < MaxCaptured
    /\ bc_captured' = bc_captured + 1
    /\ bc_thread' = [pc |-> "full", frame |-> bc_captured']
    /\ UNCHANGED <<bc_buffer, bc_got>>
    /\ UNCHANGED <<smVars, rbVars, paVars, llmVars, lockVars, gapVars, fpVars, extVars>>

\* _capture_loop: if self._buffer.full()
CaptureLoopFull ==
    /\ bc_thread.pc = "full"
    /\ bc_thread' = [bc_thread EXCEPT !.pc = IF full(bc_buffer) THEN "drop" ELSE "put"]
    /\ UNCHANGED <<bc_buffer, bc_captured, bc_got>>
    /\ UNCHANGED <<smVars, rbVars, paVars, llmVars, lockVars, gapVars, fpVars, extVars>>

\* _capture_loop: self._buffer.get_nowait(), queue.Empty ignored
CaptureLoopDrop ==
    /\ bc_thread.pc = "drop"
    /\ bc_buffer' = IF bc_buffer = <<>> THEN bc_buffer ELSE Tail(bc_buffer)
    /\ bc_thread' = [bc_thread EXCEPT !.pc = "put"]
    /\ UNCHANGED <<bc_captured, bc_got>>
    /\ UNCHANGED <<smVars, rbVars, paVars, llmVars, lockVars, gapVars, fpVars, extVars>>

\* _capture_loop: self._buffer.put_nowait((frame, timestamp)), queue.Full ignored
CaptureLoopPut ==
    /\ bc_thread.pc = "put"
    /\ bc_buffer' = IF full(bc_buffer) THEN bc_buffer
                    ELSE Append(bc_buffer, bc_thread.frame)
    /\ bc_thread' = [pc |-> "read"]
    /\ UNCHANGED <<bc_captured, bc_got>>
    /\ UNCHANGED <<smVars, rbVars, paVars, llmVars, lockVars, gapVars, fpVars, extVars>>

\* BufferedCapture.get_frame: get_nowait() hands out the head of the queue
GetFrame ==
    /\ IF bc_buffer = <<>>
       THEN /\ bc_got' = <<[ret |-> FALSE]>>
            /\ UNCHANGED bc_buffer
       ELSE /\ bc_got' = <<[ret |-> TRUE, frame |-> Head(bc_buffer)]>>
            /\ bc_buffer' = Tail(bc_buffer)
    /\ UNCHANGED <<bc_thread, bc_captured>>
    /\ UNCHANGED <<smVars, rbVars, paVars, llmVars, lockVars, gapVars, fpVars, extVars>>

NextCapture ==
    \/ CaptureLoopNoFrame
    \/ CaptureLoopWake
    \/ CaptureLoopRead
    \/ CaptureLoopFull
    \/ CaptureLoopDrop
    \/ CaptureLoopPut
    \/ GetFrame

SpecCapture == InitCapture /\ [][NextCapture]_vars

----------------------------------------------------------------------------
(* The pipeline of one FrameProcessor.  A step is the code one task runs    *)
(* between two awaits.  CameraManager registers a processor only after      *)
(* start() has returned True and drops it on stop, so stop() follows a       *)
(* successful start(), and start() is called again only on a processor      *)
(* whose capture did not open.  The event loop runs the ready tasks in the   *)
(* order they became ready.                                                  *)

InitPipeline ==
    /\ ActionStateMachine
    /\ RingBuffer(ring_buffer_duration_sec, default_fps)
    /\ NoPickAction
    /\ NoLlmCall
    /\ NoCapture
    /\ NoThreads
    /\ NoServices
    /\ NoGap
    /\ FrameProcessor

\* start() on a capture that cannot be opened, leaving the status as it was
StartFails_KeepsStatus ==
    /\ _capture \in {"None", "unopened"}
    /\ ~_running
    /\ _capture' = "unopened"
    /\ start_ret' = <<FALSE>>
    /\ UNCHANGED <<_running, _status, _llm, _movenet_active, stop_pc>>
    /\ UNCHANGED <<slotVars, loopVars, eventVars>>
    /\ UNCHANGED <<smVars, rbVars, paVars, unitVars>>

\* start() when the capture cannot be opened: a new capture is created, its
\* start() fails, the status is "error" and start() returns False
StartFails ==
    /\ _capture \in {"None", "unopened"}
    /\ ~_running
    /\ _capture' = "unopened"
    /\ _status' = "error"
    /\ start_ret' = <<FALSE>>
    /\ UNCHANGED <<_running, _llm, _movenet_active, stop_pc>>
    /\ UNCHANGED <<slotVars, loopVars, eventVars>>
    /\ UNCHANGED <<smVars, rbVars, paVars, unitVars>>

\* start() when the capture opens: a new capture is created, MoveNet loads or
\* not, the LLM client is created or initialize() raises (no API key), both
\* loop tasks are created and start() returns True
Start ==
    /\ _capture \in {"None", "unopened"}
    /\ ~_running
    /\ _capture' = "started"
    /\ _movenet_active' \in BOOLEAN
    /\ _llm' \in {"client", "no_client"}
    /\ _running' = TRUE
    /\ _status' = "live"
    /\ start_ret' = <<TRUE>>
    /\ frame_pc' = "top"
    /\ detect_pc' = "wait"
    /\ UNCHANGED <<stop_pc, tick_log, det_log>>
    /\ UNCHANGED <<slotVars, eventVars>>
    /\ UNCHANGED <<smVars, rbVars, paVars, unitVars>>

\* stop() that leaves _running set
StopBegin_KeepsRunning ==
    /\ stop_pc = "idle"
    /\ frame_pc # "none"
    /\ _status' = "stopped"
    /\ _capture' = "stopped"
    /\ IF _llm = "client"
       THEN stop_pc' = "closing" /\ UNCHANGED _llm
       ELSE stop_pc' = "returned" /\ _llm' = "closed"
    /\ UNCHANGED <<_running, _movenet_active, start_ret>>
    /\ UNCHANGED <<slotVars, loopVars, eventVars>>
    /\ UNCHANGED <<smVars, rbVars, paVars, unitVars>>

\* stop() up to its await of self._llm.close()
StopBegin ==
    /\ stop_pc = "idle"
    /\ frame_pc # "none"
    /\ _running' = FALSE
    /\ _status' = "stopped"
    /\ _capture' = "stopped"
    /\ IF _llm = "client"
       THEN stop_pc' = "closing" /\ UNCHANGED _llm
       ELSE stop_pc' = "returned" /\ _llm' = "closed"
    /\ UNCHANGED <<_movenet_active, start_ret>>
    /\ UNCHANGED <<slotVars, loopVars, eventVars>>
    /\ UNCHANGED <<smVars, rbVars, paVars, unitVars>>

\* stop() after the client has been closed
StopEnd ==
    /\ stop_pc = "closing"
    /\ _llm' = "closed"
    /\ stop_pc' = "returned"
    /\ UNCHANGED <<_running, _status, _capture, _movenet_active, start_ret>>
    /\ UNCHANGED <<slotVars, loopVars, eventVars>>
    /\ UNCHANGED <<smVars, rbVars, paVars, unitVars>>

\* The condition of the while of _frame_loop
FrameLoopCondition == _running /\ _capture = "started"

\* _frame_loop is resumed from its await asyncio.sleep(0).  A
\* _handle_event_completed task the iteration created became ready before the
\* loop did, and it has no await: it has run to its end by then.
FrameLoopResumed == frame_pc = "top" /\ tasks = <<>>

\* _frame_loop returns: its condition is false
FrameLoopExit ==
    /\ FrameLoopResumed
    /\ ~FrameLoopCondition
    /\ frame_pc' = "done"
    /\ UNCHANGED <<detect_pc, tick_log, det_log>>
    /\ UNCHANGED <<lifeVars, slotVars, eventVars>>
    /\ UNCHANGED <<smVars, rbVars, paVars, unitVars>>

\* _frame_loop: get_frame has no frame; sleep and try again
FrameLoopReadFails ==
    /\ FrameLoopResumed
    /\ FrameLoopCondition
    /\ tick_log' = <<[step |-> "read_failed"]>>
    /\ UNCHANGED <<frame_pc, detect_pc, det_log>>
    /\ UNCHANGED <<lifeVars, slotVars, eventVars>>
    /\ UNCHANGED <<smVars, rbVars, paVars, unitVars>>

\* _frame_loop: a frame is read, stored and buffered; the detectors are started
FrameLoopRead ==
    /\ FrameLoopResumed
    /\ FrameLoopCondition
    /\ handled = <<>> => _frame_counter < MaxQuietFrames
    /\ add_frame("img", now)
    /\ _latest_raw_frame' = <<_frame_counter'>>
    /\ frame_pc' = "detect"
    /\ tick_log' = <<[step |-> "read"]>>
    /\ UNCHANGED <<_latest_yolo_detections, _last_movenet_detection, _last_llm_detection,
                   _last_detection_time>>
    /\ UNCHANGED <<detect_pc, det_log>>
    /\ UNCHANGED <<lifeVars, eventVars>>
    /\ UNCHANGED <<smVars, paVars, unitVars>>

\* _frame_loop from the return of the detectors to the end of the iteration.
\* Either a detector raises, and yolo_dets is the stored value, or
\* YOLODetector.detect returns its pair: the pair is stored, it is true so
\* primary = yolo_dets[0] is the list of persons, primary.bottle_bbox raises
\* AttributeError inside the try, and yolo_dets is the stored pair again.
\* _merge_detections and render run outside the try.
FrameLoopDetect ==
    /\ frame_pc = "detect"
    /\ \E raised \in BOOLEAN, persons \in YoloPersonLists :
          LET yolo_dets == IF raised THEN _latest_yolo_detections
                           ELSE YoloPair([i \in 1..Len(persons) |-> YoloPerson(persons[i])])
              m == _merge_detections(yolo_dets, _last_movenet_detection,
                                     _last_llm_detection)
              best == IF _last_movenet_detection # <<>>
                      THEN _last_movenet_detection ELSE _last_llm_detection
              ticks == /\ best # <<>>
                       /\ best[1].action.state \notin {IDLE, UNCERTAIN}
              args == [track_id |-> best[1].track_id,
                       detected_state |-> best[1].action.state,
                       confidence |-> ToPercent(best[1].action.confidence)]
              r == update(args.track_id, args.detected_state, args.confidence)
          IN  /\ raised => persons = <<>>
              /\ _latest_yolo_detections' = yolo_dets
              /\ UNCHANGED <<_latest_raw_frame, _last_movenet_detection,
                             _last_llm_detection, _last_detection_time>>
              /\ IF m.raised
                 THEN /\ frame_pc' = "crashed"
                      /\ tick_log' = <<[step |-> "detect", raised |-> raised,
                                        persons |-> persons, crashed |-> TRUE,
                                        merged |-> <<>>, published |-> FALSE,
                                        updates |-> <<>>]>>
                      /\ UNCHANGED <<smVars, tasks>>
                 ELSE /\ frame_pc' = "top"
                      /\ tick_log' = <<[step |-> "detect", raised |-> raised,
                                        persons |-> persons, crashed |-> FALSE,
                                        merged |-> m.merged,
                                        published |-> (m.merged # <<>>),
                                        updates |-> IF ticks THEN <<args>> ELSE <<>>]>>
                      /\ IF ticks
                         THEN /\ tracked_persons' =
                                    [t \in DOMAIN tracked_persons \cup {args.track_id} |->
                                        IF t = args.track_id THEN r.person
                                        ELSE tracked_persons[t]]
                              /\ call' = <<args>>
                              /\ ret' = <<r.ret>>
                              /\ UNCHANGED now
                              /\ tasks' = IF r.ret[2] /\ r.ret[3] # <<>>
                                          THEN Append(tasks, r.ret[3][1])
                                          ELSE tasks
                         ELSE UNCHANGED <<smVars, tasks>>
    /\ UNCHANGED <<detect_pc, det_log, handled>>
    /\ UNCHANGED lifeVars
    /\ UNCHANGED <<rbVars, paVars, unitVars>>

\* _detection_loop: the wait for the first frame is over
DetectionLoopFirstFrame ==
    /\ detect_pc = "wait"
    /\ ~(_running /\ _latest_raw_frame = <<>>)
    /\ detect_pc' = "top"
    /\ UNCHANGED <<frame_pc, tick_log, det_log>>
    /\ UNCHANGED <<lifeVars, slotVars, eventVars>>
    /\ UNCHANGED <<smVars, rbVars, paVars, unitVars>>

\* _detection_loop returns: _running is false, or self._llm is None
DetectionLoopExit ==
    /\ detect_pc = "top"
    /\ ~_running \/ _llm \in {"None", "closed"}
    /\ detect_pc' = "done"
    /\ UNCHANGED <<frame_pc, tick_log, det_log>>
    /\ UNCHANGED <<lifeVars, slotVars, eventVars>>
    /\ UNCHANGED <<smVars, rbVars, paVars, unitVars>>

\* _detection_loop: one iteration up to the await of the LLM call.  With the
\* stored pair, primary is the list of persons: an empty list sends the whole
\* frame to detect(), a non-empty one raises AttributeError at
\* primary.person_bbox.  Without a client the call raises ValueError from
\* initialize().  Both exceptions are caught and the iteration ends.
DetectionLoopCall ==
    /\ detect_pc = "top"
    /\ _running
    /\ _llm \in {"client", "no_client"}
    /\ _latest_raw_frame # <<>>
    /\ LET yolo_dets == _latest_yolo_detections IN
       IF yolo_dets.kind = "pair" /\ yolo_dets.persons # <<>>
       THEN /\ det_log' = <<[step |-> "attribute_error"]>>
            /\ UNCHANGED detect_pc
       ELSE IF _llm = "no_client"
       THEN /\ det_log' = <<[step |-> "init_error"]>>
            /\ UNCHANGED detect_pc
       ELSE /\ det_log' = <<[step |-> "calling",
                            track_id |-> IF yolo_dets.persons # <<>>
                                         THEN yolo_dets.persons[1].track_id ELSE 0]>>
            /\ detect_pc' = "call"
    /\ UNCHANGED <<frame_pc, tick_log>>
    /\ UNCHANGED <<lifeVars, slotVars, eventVars>>
    /\ UNCHANGED <<smVars, rbVars, paVars, unitVars>>

\* The LLM call returns and the loop also clears the latest frame
DetectionLoopReturn_ClearsFrame ==
    /\ detect_pc = "call"
    /\ \E ok \in BOOLEAN, state \in LlmStates, confidence \in LlmConfidences :
          /\ ~ok => state = UNCERTAIN
          /\ _last_llm_detection' =
                <<PersonDetection(det_log[1].track_id,
                                  ActionResult(state, IF ok THEN confidence ELSE 0,
                                               "confirm"))>>
          /\ det_log' = <<[step |-> "returned", ok |-> ok]>>
    /\ _last_detection_time' = now
    /\ detect_pc' = "top"
    /\ _latest_raw_frame' = <<>>
    /\ UNCHANGED <<_latest_yolo_detections, _last_movenet_detection>>
    /\ UNCHANGED <<frame_pc, tick_log>>
    /\ UNCHANGED <<lifeVars, eventVars>>
    /\ UNCHANGED <<smVars, rbVars, paVars, unitVars>>

\* _detection_loop: the LLM call returns an answer, or fails inside the
\* detector, which then answers UNCERTAIN with confidence 0
DetectionLoopReturn ==
    /\ detect_pc = "call"
    /\ \E ok \in BOOLEAN, state \in LlmStates, confidence \in LlmConfidences :
          /\ ~ok => state = UNCERTAIN
          /\ _last_llm_detection' =
                <<PersonDetection(det_log[1].track_id,
                                  ActionResult(state, IF ok THEN confidence ELSE 0,
                                               "confirm"))>>
          /\ det_log' = <<[step |-> "returned", ok |-> ok]>>
    /\ _last_detection_time' = now
    /\ detect_pc' = "top"
    /\ UNCHANGED <<_latest_raw_frame, _latest_yolo_detections, _last_movenet_detection>>
    /\ UNCHANGED <<frame_pc, tick_log>>
    /\ UNCHANGED <<lifeVars, eventVars>>
    /\ UNCHANGED <<smVars, rbVars, paVars, unitVars>>

\* One _handle_event_completed task runs (it has no await).  save_snapshot
\* and save_clip are called outside any try and their results are not looked
\* at; the clip is only attempted when the clip window holds frames.
HandleEventCompleted ==
    /\ tasks # <<>>
    /\ LET event_data == Head(tasks) IN
       \E snapshot \in ArtifactOutcomes, clip \in ArtifactOutcomes :
          LET clip_frames ==
                  IF event_data.start_ts = <<>> THEN <<>>
                  ELSE get_clip_frames(event_data.start_ts[1], event_data.end_ts,
                                       clip_before_sec, clip_after_sec)
              returns_early == event_data.start_ts = <<>>
              clip_tried == ~returns_early /\ snapshot # "raised" /\ clip_frames # <<>>
              escaped == ~returns_early /\
                         (snapshot = "raised" \/ (clip_tried /\ clip = "raised"))
          IN  /\ (returns_early => snapshot = "failed")
              /\ (~clip_tried => clip = "failed")
              /\ handled' = Append(handled,
                    [event |-> event_data,
                     snapshot_written |-> ~returns_early /\ snapshot = "written",
                     clip_written |-> clip_tried /\ clip = "written",
                     clip_frames |-> IF clip_tried
                                     THEN [i \in 1..Len(clip_frames) |->
                                              clip_frames[i].frame_id]
                                     ELSE <<>>,
                     forwarded |-> ~returns_early /\ ~escaped,
                     snapshot_path |-> ~returns_early /\ ~escaped,
                     clip_path |-> ~returns_early /\ ~escaped /\ clip_frames # <<>>])
    /\ tasks' = Tail(tasks)
    /\ UNCHANGED <<lifeVars, slotVars, loopVars>>
    /\ UNCHANGED <<smVars, rbVars, paVars, unitVars>>

NextPipeline ==
    \/ StartFails
    \/ Start
    \/ StopBegin
    \/ StopEnd
    \/ FrameLoopExit
    \/ FrameLoopReadFails
    \/ FrameLoopRead
    \/ FrameLoopDetect
    \/ DetectionLoopFirstFrame
    \/ DetectionLoopExit
    \/ DetectionLoopCall
    \/ DetectionLoopReturn
    \/ HandleEventCompleted

SpecPipeline == InitPipeline /\ [][NextPipeline]_vars

\* The event loop runs every task that is ready, and the detector calls a
\* loop awaits (thread calls, the HTTP request) come back
FairPipeline ==
    /\ WF_vars(StopEnd)
    /\ WF_vars(FrameLoopExit)
    /\ WF_vars(FrameLoopDetect)
    /\ WF_vars(DetectionLoopFirstFrame)
    /\ WF_vars(DetectionLoopExit)
    /\ WF_vars(DetectionLoopReturn)
    /\ WF_vars(HandleEventCompleted)

FairSpecPipeline == InitPipeline /\ [][NextPipeline]_vars /\ FairPipeline

----------------------------------------------------------------------------
(* One FrameProcessor started and stopped any number of times.  Every       *)
(* start() call and every loop task is followed on its own; a step is the   *)
(* code a call or a task runs between two awaits.                           *)

\* What the vision LLM answers while a processor is started and stopped
RestartLlmStates == {BOTTLE_IN_HAND}

notTaskVars == <<paVars, llmVars, bcVars, lockVars, gapVars, mgrVars, wsVars,
                 frame_pc, detect_pc, handled>>

\* start() up to its first await: it returns True if _running is set;
\* otherwise it creates a capture, returns False if that does not open and
\* awaits the YOLO warm-up if it does
StartCall(c) ==
    /\ start_pc[c] = "idle"
    /\ IF _running
       THEN /\ start_pc' = [start_pc EXCEPT ![c] = "returned"]
            /\ start_ret' = <<TRUE>>
            /\ UNCHANGED <<_capture, _status>>
       ELSE \E opened \in BOOLEAN :
            IF opened
            THEN /\ _capture' = "started"
                 /\ start_pc' = [start_pc EXCEPT ![c] = "warmup"]
                 /\ UNCHANGED <<_status, start_ret>>
            ELSE /\ _capture' = "unopened"
                 /\ _status' = "error"
                 /\ start_ret' = <<FALSE>>
                 /\ start_pc' = [start_pc EXCEPT ![c] = "returned"]
    /\ UNCHANGED <<_running, _llm, _movenet_active, stop_pc>>
    /\ UNCHANGED <<llm_of, frame_loops, detection_loops>>
    /\ UNCHANGED <<smVars, rbVars, slotVars, tick_log, det_log, tasks>>
    /\ UNCHANGED notTaskVars

\* start(): the warm-up is over, the loading of MoveNet is awaited
StartWarmedUp(c) ==
    /\ start_pc[c] = "warmup"
    /\ start_pc' = [start_pc EXCEPT ![c] = "load"]
    /\ UNCHANGED <<llm_of, frame_loops, detection_loops>>
    /\ UNCHANGED <<lifeVars, smVars, rbVars, slotVars, tick_log, det_log, tasks>>
    /\ UNCHANGED notTaskVars

\* start(): MoveNet has loaded or not; a VisionLLMDetector is created and its
\* initialize() awaited
StartMoveNetLoaded(c) ==
    /\ start_pc[c] = "load"
    /\ _movenet_active' \in BOOLEAN
    /\ _llm' = "no_client"
    /\ llm_of' = c
    /\ start_pc' = [start_pc EXCEPT ![c] = "init"]
    /\ UNCHANGED <<_running, _status, _capture, stop_pc, start_ret>>
    /\ UNCHANGED <<frame_loops, detection_loops>>
    /\ UNCHANGED <<smVars, rbVars, slotVars, tick_log, det_log, tasks>>
    /\ UNCHANGED notTaskVars

\* start(): initialize() has given the detector of this call a client or has
\* raised; _running is set, both loop tasks are created, True is returned
StartInitialized(c) ==
    /\ start_pc[c] = "init"
    /\ \E client \in BOOLEAN :
          _llm' = IF client /\ llm_of = c /\ _llm = "no_client" THEN "client" ELSE _llm
    /\ _running' = TRUE
    /\ _status' = "live"
    /\ frame_loops' = Append(frame_loops, "top")
    /\ detection_loops' = Append(detection_loops, [pc |-> "wait", track_id |-> 0])
    /\ start_ret' = <<TRUE>>
    /\ start_pc' = [start_pc EXCEPT ![c] = "returned"]
    /\ UNCHANGED <<_capture, _movenet_active, stop_pc, llm_of>>
    /\ UNCHANGED <<smVars, rbVars, slotVars, tick_log, det_log, tasks>>
    /\ UNCHANGED notTaskVars

\* stop() up to its await of self._llm.close(), or to its end when the
\* detector has no client to close
StopCall ==
    /\ stop_pc # "closing"
    /\ _running' = FALSE
    /\ _status' = "stopped"
    /\ _capture' = IF _capture = "None" THEN "None" ELSE "stopped"
    /\ IF _llm = "client"
       THEN /\ stop_pc' = "closing"
            /\ UNCHANGED <<_llm, llm_of>>
       ELSE /\ stop_pc' = "returned"
            /\ _llm' = IF _llm = "None" THEN "None" ELSE "closed"
            /\ llm_of' = 0
    /\ UNCHANGED <<_movenet_active, start_ret>>
    /\ UNCHANGED <<start_pc, frame_loops, detection_loops>>
    /\ UNCHANGED <<smVars, rbVars, slotVars, tick_log, det_log, tasks>>
    /\ UNCHANGED notTaskVars

\* stop() after the client has been closed: self._llm = None
StopClosed ==
    /\ stop_pc = "closing"
    /\ _llm' = "closed"
    /\ llm_of' = 0
    /\ stop_pc' = "returned"
    /\ UNCHANGED <<_running, _status, _capture, _movenet_active, start_ret>>
    /\ UNCHANGED <<start_pc, frame_loops, detection_loops>>
    /\ UNCHANGED <<smVars, rbVars, slotVars, tick_log, det_log, tasks>>
    /\ UNCHANGED notTaskVars

\* A _frame_loop task is resumed from the sleep at the end of an iteration
FrameTaskResumed(i) ==
    /\ i \in 1..Len(frame_loops)
    /\ frame_loops[i] = "top"
    /\ tasks = <<>>

\* A _frame_loop task returns: its condition is false
FrameTaskExit(i) ==
    /\ FrameTaskResumed(i)
    /\ ~FrameLoopCondition
    /\ frame_loops' = [frame_loops EXCEPT ![i] = "done"]
    /\ UNCHANGED <<start_pc, llm_of, detection_loops>>
    /\ UNCHANGED <<lifeVars, smVars, rbVars, slotVars, tick_log, det_log, tasks>>
    /\ UNCHANGED notTaskVars

\* A _frame_loop task: get_frame has no frame; sleep and try again
FrameTaskReadFails(i) ==
    /\ FrameTaskResumed(i)
    /\ FrameLoopCondition
    /\ tick_log' = <<[step |-> "read_failed", loop |-> i]>>
    /\ UNCHANGED taskVars
    /\ UNCHANGED <<lifeVars, smVars, rbVars, slotVars, det_log, tasks>>
    /\ UNCHANGED notTaskVars

\* A _frame_loop task: a frame is read, stored and buffered; the detectors
\* are started
FrameTaskRead(i) ==
    /\ FrameTaskResumed(i)
    /\ FrameLoopCondition
    /\ _frame_counter < MaxLoopFrames
    /\ add_frame("img", now)
    /\ _latest_raw_frame' = <<_frame_counter'>>
    /\ frame_loops' = [frame_loops EXCEPT ![i] = "detect"]
    /\ tick_log' = <<[step |-> "read", loop |-> i]>>
    /\ UNCHANGED <<_latest_yolo_detections, _last_movenet_detection, _last_llm_detection,
                   _last_detection_time>>
    /\ UNCHANGED <<start_pc, llm_of, detection_loops>>
    /\ UNCHANGED <<lifeVars, smVars, det_log, tasks>>
    /\ UNCHANGED notTaskVars

\* A _frame_loop task from the return of the detectors to the end of the
\* iteration (as FrameLoopDetect)
FrameTaskDetect(i) ==
    /\ i \in 1..Len(frame_loops)
    /\ frame_loops[i] = "detect"
    /\ \E raised \in BOOLEAN, persons \in YoloPersonLists :
          LET yolo_dets == IF raised THEN _latest_yolo_detections
                           ELSE YoloPair([j \in 1..Len(persons) |-> YoloPerson(persons[j])])
              m == _merge_detections(yolo_dets, _last_movenet_detection,
                                     _last_llm_detection)
              best == IF _last_movenet_detection # <<>>
                      THEN _last_movenet_detection ELSE _last_llm_detection
              ticks == /\ best # <<>>
                       /\ best[1].action.state \notin {IDLE, UNCERTAIN}
              args == [track_id |-> best[1].track_id,
                       detected_state |-> best[1].action.state,
                       confidence |-> ToPercent(best[1].action.confidence)]
              r == update(args.track_id, args.detected_state, args.confidence)
          IN  /\ raised => persons = <<>>
              /\ _latest_yolo_detections' = yolo_dets
              /\ UNCHANGED <<_latest_raw_frame, _last_movenet_detection,
                             _last_llm_detection, _last_detection_time>>
              /\ IF m.raised
                 THEN /\ frame_loops' = [frame_loops EXCEPT ![i] = "crashed"]
                      /\ tick_log' = <<[step |-> "detect", loop |-> i, crashed |-> TRUE]>>
                      /\ UNCHANGED <<smVars, tasks>>
                 ELSE /\ frame_loops' = [frame_loops EXCEPT ![i] = "top"]
                      /\ tick_log' = <<[step |-> "detect", loop |-> i, crashed |-> FALSE]>>
                      /\ IF ticks
                         THEN /\ tracked_persons' =
                                    [t \in DOMAIN tracked_persons \cup {args.track_id} |->
                                        IF t = args.track_id THEN r.person
                                        ELSE tracked_persons[t]]
                              /\ call' = <<args>>
                              /\ ret' = <<r.ret>>
                              /\ UNCHANGED now
                              /\ tasks' = IF r.ret[2] /\ r.ret[3] # <<>>
                                          THEN Append(tasks, r.ret[3][1])
                                          ELSE tasks
                         ELSE UNCHANGED <<smVars, tasks>>
    /\ UNCHANGED <<start_pc, llm_of, detection_loops>>
    /\ UNCHANGED <<lifeVars, rbVars, det_log>>
    /\ UNCHANGED notTaskVars

\* A _detection_loop task: the wait for the first frame is over
DetectionTaskFirstFrame(i) ==
    /\ i \in 1..Len(detection_loops)
    /\ detection_loops[i].pc = "wait"
    /\ ~(_running /\ _latest_raw_frame = <<>>)
    /\ detection_loops' = [detection_loops EXCEPT ![i].pc = "top"]
    /\ UNCHANGED <<start_pc, llm_of, frame_loops>>
    /\ UNCHANGED <<lifeVars, smVars, rbVars, slotVars, tick_log, det_log, tasks>>
    /\ UNCHANGED notTaskVars

\* A _detection_loop task returns: _running is false, or self._llm is None
DetectionTaskExit(i) ==
    /\ i \in 1..Len(detection_loops)
    /\ detection_loops[i].pc = "top"
    /\ ~_running \/ _llm \in {"None", "closed"}
    /\ detection_loops' = [detection_loops EXCEPT ![i].pc = "done"]
    /\ UNCHANGED <<start_pc, llm_of, frame_loops>>
    /\ UNCHANGED <<lifeVars, smVars, rbVars, slotVars, tick_log, det_log, tasks>>
    /\ UNCHANGED notTaskVars

\* A _detection_loop task: one iteration up to the await of the LLM call (as
\* DetectionLoopCall)
DetectionTaskCall(i) ==
    /\ i \in 1..Len(detection_loops)
    /\ detection_loops[i].pc = "top"
    /\ _running
    /\ _llm \in {"client", "no_client"}
    /\ _latest_raw_frame # <<>>
    /\ LET yolo_dets == _latest_yolo_detections IN
       IF yolo_dets.kind = "pair" /\ yolo_dets.persons # <<>>
       THEN /\ det_log' = <<[step |-> "attribute_error", loop |-> i]>>
            /\ UNCHANGED detection_loops
       ELSE IF _llm = "no_client"
       THEN /\ det_log' = <<[step |-> "init_error", loop |-> i]>>
            /\ UNCHANGED detection_loops
       ELSE /\ det_log' = <<[step |-> "calling", loop |-> i]>>
            /\ detection_loops' =
                  [detection_loops EXCEPT
                      ![i] = [pc |-> "call",
                              track_id |-> IF yolo_dets.persons # <<>>
                                           THEN yolo_dets.persons[1].track_id ELSE 0]]
    /\ UNCHANGED <<start_pc, llm_of, frame_loops>>
    /\ UNCHANGED <<lifeVars, smVars, rbVars, slotVars, tick_log, tasks>>
    /\ UNCHANGED notTaskVars

\* A _detection_loop task: the LLM call returns an answer, or fails inside
\* the detector, which then answers UNCERTAIN with confidence 0
DetectionTaskReturn(i) ==
    /\ i \in 1..Len(detection_loops)
    /\ detection_loops[i].pc = "call"
    /\ \E ok \in BOOLEAN, state \in RestartLlmStates, confidence \in LlmConfidences :
          /\ _last_llm_detection' =
                <<PersonDetection(detection_loops[i].track_id,
                                  ActionResult(IF ok THEN state ELSE UNCERTAIN,
                                               IF ok THEN confidence ELSE 0,
                                               "confirm"))>>
          /\ det_log' = <<[step |-> "returned", loop |-> i, ok |-> ok]>>
    /\ _last_detection_time' = now
    /\ detection_loops' = [detection_loops EXCEPT ![i].pc = "top"]
    /\ UNCHANGED <<_latest_raw_frame, _latest_yolo_detections, _last_movenet_detection>>
    /\ UNCHANGED <<start_pc, llm_of, frame_loops>>
    /\ UNCHANGED <<lifeVars, smVars, rbVars, tick_log, tasks>>
    /\ UNCHANGED notTaskVars

NextRestart ==
    \/ \E c \in StartCalls : StartCall(c)
    \/ \E c \in StartCalls : StartWarmedUp(c)
    \/ \E c \in StartCalls : StartMoveNetLoaded(c)
    \/ \E c \in StartCalls : StartInitialized(c)
    \/ StopCall
    \/ StopClosed
    \/ \E i \in StartCalls : FrameTaskExit(i)
    \/ \E i \in StartCalls : FrameTaskReadFails(i)
    \/ \E i \in StartCalls : FrameTaskRead(i)
    \/ \E i \in StartCalls : FrameTaskDetect(i)
    \/ \E i \in StartCalls : DetectionTaskFirstFrame(i)
    \/ \E i \in StartCalls : DetectionTaskExit(i)
    \/ \E i \in StartCalls : DetectionTaskCall(i)
    \/ \E i \in StartCalls : DetectionTaskReturn(i)

SpecRestart == InitPipeline /\ [][NextRestart]_vars

----------------------------------------------------------------------------
(* _detection_loop with time: the processor has been started, a frame has  *)
(* been read, and the loop is at the top of its while.  The clock advances *)
(* in steps of TickMs while the loop is suspended in the LLM call or in    *)
(* asyncio.sleep; the code between two awaits takes no time.               *)

\* One step of the clock
TickMs == 250

\* min_gap = settings.detection_interval_ms / 1000.0, kept in milliseconds
min_gap == detection_interval_ms

InitGap ==
    /\ ActionStateMachine
    /\ RingBuffer(ring_buffer_duration_sec, default_fps)
    /\ NoPickAction
    /\ NoLlmCall
    /\ NoCapture
    /\ NoThreads
    /\ NoServices
    /\ time_ms = 0
    /\ call_start = <<>>
    /\ sleep_until = <<>>
    /\ llm_calls = <<>>
    /\ _running = TRUE
    /\ _status = "live"
    /\ _capture = "started"
    /\ _llm \in {"client", "no_client"}
    /\ _movenet_active \in BOOLEAN
    /\ _latest_raw_frame = <<1>>
    /\ _latest_yolo_detections \in {YoloList(<<>>), YoloPair(<<YoloPerson(1)>>)}
    /\ _last_movenet_detection = <<>>
    /\ _last_llm_detection = <<>>
    /\ _last_detection_time = 0
    /\ frame_pc = "top"
    /\ detect_pc = "top"
    /\ stop_pc = "idle"
    /\ start_ret = <<TRUE>>
    /\ tick_log = <<>>
    /\ det_log = <<>>
    /\ tasks = <<>>
    /\ handled = <<>>

\* Time passes
ClockTick ==
    /\ time_ms < MaxGapTicks * TickMs
    /\ time_ms' = time_ms + TickMs
    /\ UNCHANGED <<call_start, sleep_until, llm_calls>>
    /\ UNCHANGED <<smVars, rbVars, paVars, llmVars, bcVars, lockVars, fpVars, extVars>>

\* The end of an iteration: elapsed, remaining and the sleep
EndOfIteration(started) ==
    LET elapsed == time_ms - started
        remaining == min_gap - elapsed
    IN  IF remaining > 0
        THEN detect_pc' = "gap" /\ sleep_until' = <<time_ms + remaining>>
        ELSE detect_pc' = "top" /\ sleep_until' = <<>>

\* One iteration up to the await of the LLM call: call_start is taken; the
\* exceptions raised before the request (AttributeError on the stored pair,
\* ValueError from initialize()) are caught and the iteration goes on to its
\* end without having been suspended
TimedDetectionLoopCall ==
    /\ detect_pc = "top"
    /\ _running
    /\ _llm \in {"client", "no_client"}
    /\ _latest_raw_frame # <<>>
    /\ call_start' = <<time_ms>>
    /\ LET yolo_dets == _latest_yolo_detections IN
       IF yolo_dets.kind = "pair" /\ yolo_dets.persons # <<>>
       THEN /\ det_log' = <<[step |-> "attribute_error"]>>
            /\ EndOfIteration(time_ms)
            /\ UNCHANGED llm_calls
       ELSE IF _llm = "no_client"
       THEN /\ det_log' = <<[step |-> "init_error"]>>
            /\ EndOfIteration(time_ms)
            /\ llm_calls' = Append(llm_calls, time_ms)
       ELSE /\ det_log' = <<[step |-> "calling",
                            track_id |-> IF yolo_dets.persons # <<>>
                                         THEN yolo_dets.persons[1].track_id ELSE 0]>>
            /\ detect_pc' = "call"
            /\ llm_calls' = Append(llm_calls, time_ms)
            /\ UNCHANGED sleep_until
    /\ UNCHANGED time_ms
    /\ UNCHANGED <<frame_pc, tick_log>>
    /\ UNCHANGED <<lifeVars, slotVars, eventVars>>
    /\ UNCHANGED <<smVars, rbVars, paVars, llmVars, bcVars, lockVars, extVars>>

\* The LLM call returns and the iteration never sleeps
TimedDetectionLoopReturn_NoSleep ==
    /\ detect_pc = "call"
    /\ \E ok \in BOOLEAN, state \in LlmStates, confidence \in LlmConfidences :
          /\ ~ok => state = UNCERTAIN
          /\ _last_llm_detection' =
                <<PersonDetection(det_log[1].track_id,
                                  ActionResult(state, IF ok THEN confidence ELSE 0,
                                               "confirm"))>>
          /\ det_log' = <<[step |-> "returned", ok |-> ok]>>
    /\ _last_detection_time' = time_ms
    /\ detect_pc' = "top"
    /\ sleep_until' = <<>>
    /\ UNCHANGED <<time_ms, call_start, llm_calls>>
    /\ UNCHANGED <<_latest_raw_frame, _latest_yolo_detections, _last_movenet_detection>>
    /\ UNCHANGED <<frame_pc, tick_log>>
    /\ UNCHANGED <<lifeVars, eventVars>>
    /\ UNCHANGED <<smVars, rbVars, paVars, llmVars, bcVars, lockVars, extVars>>

\* The LLM call returns: the result is stored, and the iteration ends
TimedDetectionLoopReturn ==
    /\ detect_pc = "call"
    /\ \E ok \in BOOLEAN, state \in LlmStates, confidence \in LlmConfidences :
          /\ ~ok => state = UNCERTAIN
          /\ _last_llm_detection' =
                <<PersonDetection(det_log[1].track_id,
                                  ActionResult(state, IF ok THEN confidence ELSE 0,
                                               "confirm"))>>
          /\ det_log' = <<[step |-> "returned", ok |-> ok]>>
    /\ _last_detection_time' = time_ms
    /\ EndOfIteration(call_start[1])
    /\ UNCHANGED <<time_ms, call_start, llm_calls>>
    /\ UNCHANGED <<_latest_raw_frame, _latest_yolo_detections, _last_movenet_detection>>
    /\ UNCHANGED <<frame_pc, tick_log>>
    /\ UNCHANGED <<lifeVars, eventVars>>
    /\ UNCHANGED <<smVars, rbVars, paVars, llmVars, bcVars, lockVars, extVars>>

\* asyncio.sleep(remaining) is over: not before its delay has passed
DetectionLoopSleepOver ==
    /\ detect_pc = "gap"
    /\ time_ms >= sleep_until[1]
    /\ detect_pc' = "top"
    /\ sleep_until' = <<>>
    /\ UNCHANGED <<time_ms, call_start, llm_calls>>
    /\ UNCHANGED <<frame_pc, tick_log, det_log>>
    /\ UNCHANGED <<lifeVars, slotVars, eventVars>>
    /\ UNCHANGED <<smVars, rbVars, paVars, llmVars, bcVars, lockVars, extVars>>

NextGap ==
    \/ ClockTick
    \/ TimedDetectionLoopCall
    \/ TimedDetectionLoopReturn
    \/ DetectionLoopSleepOver
    \/ StopBegin
    \/ StopEnd
    \/ DetectionLoopExit

SpecGap == InitGap /\ [][NextGap]_vars

----------------------------------------------------------------------------
TypeOK ==
    /\ now \in 0..MaxTime
    /\ DOMAIN tracked_persons \subseteq TrackIds
    /\ Len(call) <= 1
    /\ Len(ret) <= 1
    /\ \A t \in DOMAIN tracked_persons :
          /\ tracked_persons[t].current_state \in ActionState
          /\ tracked_persons[t].consecutive_frames \in 0..MaxFrames
          /\ Len(tracked_persons[t].state_history) <= MaxHistory

----------------------------------------------------------------------------
(* Properties of ActionStateMachine *)

\* The transition graph of the design, self-loops left out
GraphEdges ==
    {<<IDLE, BOTTLE_IN_HAND>>,
     <<BOTTLE_IN_HAND, CAP_OPENING>>, <<BOTTLE_IN_HAND, IDLE>>,
     <<CAP_OPENING, DRINKING>>, <<CAP_OPENING, BOTTLE_IN_HAND>>, <<CAP_OPENING, IDLE>>,
     <<DRINKING, COMPLETED>>, <<DRINKING, IDLE>>,
     <<COMPLETED, IDLE>>}

\* The person an update of track_id starts from (a new one if untracked)
Before(track_id) ==
    IF track_id \in DOMAIN tracked_persons
    THEN tracked_persons[track_id]
    ELSE TrackedPerson(now)

\* The step is an update call that changes something; its arguments are
\* recorded in call'.  The clock stands still (not Tick) and no subject is
\* removed (cleanup_stale, when it changes anything, removes one).
UpdateStep ==
    /\ vars' # vars
    /\ now' = now
    /\ DOMAIN tracked_persons \subseteq DOMAIN tracked_persons'

\* The subject of the update step before and after the call
Old == Before(call'[1].track_id)
New == tracked_persons'[call'[1].track_id]

\* The update step commits a transition into to_state
Commits(to_state) ==
    /\ Len(New.state_history) = Len(Old.state_history) + 1
    /\ New.state_history[Len(New.state_history)].to_state = to_state

\* C1: every change of a subject's stored state made by an update call, and
\* every transition recorded in its history, is an edge of the transition graph.
C1_TransitionsFollowGraph ==
    [][
        UpdateStep =>
            /\ \/ New.current_state = Old.current_state
               \/ <<Old.current_state,
                    New.current_state>> \in GraphEdges
            /\ \A i \in DOMAIN New.state_history :
                  <<New.state_history[i].from_state,
                    New.state_history[i].to_state>> \in GraphEdges
      ]_vars

\* A subject has walked the whole graph: its last recorded transition is
\* Drinking -> Completed and its stored state went Drinking -> Idle
C1_Witness ==
    \E track_id \in DOMAIN tracked_persons :
        LET h == tracked_persons[track_id].state_history IN
        /\ Len(h) = 4
        /\ h[4].from_state = DRINKING /\ h[4].to_state = COMPLETED
        /\ tracked_persons[track_id].current_state = IDLE

\* C2: (debounce, consecutive_frames_required = 2) an update call commits a
\* transition to T only if T was detected with confidence >= confidence_threshold
\* in this call and in the subject's previous update call.
C2_DebounceTwoConsecutive ==
    [][
        (/\ UpdateStep
         /\ Commits(call'[1].detected_state))
        => /\ call'[1].confidence >= confidence_threshold
           /\ call # <<>>
           /\ call[1].track_id = call'[1].track_id
           /\ call[1].detected_state = call'[1].detected_state
           /\ call[1].confidence >= confidence_threshold
      ]_vars

\* C3: an update call with confidence < confidence_threshold never changes the
\* subject's current state and never returns a completed event.
C3_LowConfidenceNoTransition ==
    [][
        (/\ UpdateStep
         /\ call'[1].confidence < confidence_threshold)
        => /\ New.current_state = Old.current_state
           /\ New.state_history = Old.state_history
           /\ ret'[1][2] = FALSE
           /\ ret'[1][3] = <<>>
      ]_vars

\* A subject in LidOpening has just received a Drinking detection at 0.50 and
\* is still in LidOpening
C3_Witness ==
    /\ call # <<>> /\ ret # <<>>
    /\ call[1].detected_state = DRINKING
    /\ call[1].confidence = 50
    /\ call[1].track_id \in DOMAIN tracked_persons
    /\ tracked_persons[call[1].track_id].current_state = CAP_OPENING
    /\ ret[1] = <<CAP_OPENING, FALSE, <<>>>>

\* C4 as stated: after any update call with confidence < confidence_threshold
\* the subject's consecutive-match counter is 0.
C4_LowConfidenceCounterZero ==
    [][
        (/\ UpdateStep
         /\ call'[1].confidence < confidence_threshold)
        => New.consecutive_frames = 0
      ]_vars

\* C4 amended: after an update call with confidence < confidence_threshold whose
\* detected state differs from the current state and is a transition the graph
\* allows from it, the subject's consecutive-match counter is 0.
C4_LowConfidenceValidCounterZero ==
    [][
        (/\ UpdateStep
         /\ call'[1].confidence < confidence_threshold
         /\ <<Old.current_state, call'[1].detected_state>> \in GraphEdges)
        => New.consecutive_frames = 0
      ]_vars

\* A subject in ObjectInHand (counter 1 or more since the commit) has just
\* received a LidOpening detection at 0.50 and its counter is 0
C4_Witness ==
    /\ call # <<>>
    /\ call[1].detected_state = CAP_OPENING
    /\ call[1].confidence = 50
    /\ call[1].track_id \in DOMAIN tracked_persons
    /\ tracked_persons[call[1].track_id].current_state = BOTTLE_IN_HAND
    /\ tracked_persons[call[1].track_id].consecutive_frames = 0
    /\ tracked_persons[call[1].track_id].last_update = now

\* C5: an update call returns the completed flag, together with exactly one
\* event, if and only if the call commits a transition into Completed.
C5_EventIffCommitCompleted ==
    [][
        UpdateStep =>
            /\ (ret'[1][2] = TRUE) <=> (Len(ret'[1][3]) = 1)
            /\ Len(ret'[1][3]) <= 1
            /\ (ret'[1][2] = TRUE) <=> Commits(COMPLETED)
      ]_vars

\* The last update call returned the completed flag with an event for its subject
C5_Witness ==
    /\ call # <<>> /\ ret # <<>>
    /\ call[1].detected_state = COMPLETED
    /\ ret[1][2] = TRUE
    /\ Len(ret[1][3]) = 1
    /\ ret[1][3][1].track_id = call[1].track_id

\* C6: immediately after an update call that emits an event, the subject's
\* stored state is Idle, its accumulated sequence is empty and its
\* sequence-start timestamp is null, while the call returns Completed.
C6_AfterEventIdleAndEmpty ==
    [][
        (/\ UpdateStep
         /\ ret'[1][3] # <<>>)
        => /\ New.current_state = IDLE
           /\ New.sequence_states = <<>>
           /\ New.sequence_started_at = <<>>
           /\ ret'[1][1] = COMPLETED
      ]_vars

\* An event carrying a three-state sequence and a start timestamp was just
\* returned, and the subject's own sequence fields are cleared
C6_Witness ==
    /\ call # <<>> /\ ret # <<>>
    /\ ret[1][3] # <<>>
    /\ ret[1][3][1].sequence = <<BOTTLE_IN_HAND, CAP_OPENING, DRINKING>>
    /\ ret[1][3][1].start_ts # <<>>
    /\ call[1].track_id \in DOMAIN tracked_persons
    /\ tracked_persons[call[1].track_id].sequence_states = <<>>
    /\ tracked_persons[call[1].track_id].last_update = now

\* C7: (escape hatch) for a subject in LidOpening, whatever its counter, one
\* update call with detected state Idle and confidence 0.95 leaves the subject
\* in Idle with its sequence-tracking fields reset.
C7_EscapeHatchResets ==
    [][
        (/\ UpdateStep
         /\ call'[1].detected_state = IDLE
         /\ call'[1].confidence = 95
         /\ Old.current_state = CAP_OPENING)
        => /\ New.current_state = IDLE
           /\ New.sequence_states = <<>>
           /\ New.sequence_started_at = <<>>
      ]_vars

\* C8: (debounce scenario) for a newly created subject a first update with
\* ObjectInHand at 0.65 leaves the state Idle with counter 1; the next update,
\* ObjectInHand at 0.70, commits ObjectInHand, records the sequence start and
\* sets the accumulated sequence to [ObjectInHand].
C8_DebounceScenario ==
    [][
        /\ (/\ UpdateStep
            /\ call'[1].detected_state = BOTTLE_IN_HAND
            /\ call'[1].confidence = 65
            /\ call'[1].track_id \notin DOMAIN tracked_persons)
           => /\ New.current_state = IDLE
              /\ New.consecutive_frames = 1
              /\ New.sequence_started_at = <<>>
        /\ (/\ UpdateStep
            /\ call'[1].detected_state = BOTTLE_IN_HAND
            /\ call'[1].confidence = 70
            /\ call'[1].track_id \in DOMAIN tracked_persons
            /\ call = <<[track_id |-> call'[1].track_id,
                         detected_state |-> BOTTLE_IN_HAND, confidence |-> 65]>>
            /\ Old = [TrackedPerson(Old.last_update) EXCEPT !.consecutive_frames = 1])
           => /\ New.current_state = BOTTLE_IN_HAND
              /\ New.sequence_started_at = <<now>>
              /\ New.sequence_states = <<BOTTLE_IN_HAND>>
              /\ ret'[1] = <<BOTTLE_IN_HAND, FALSE, <<>>>>
      ]_vars

\* The second tick of the scenario has committed: the only recorded transition
\* is Idle -> ObjectInHand at 0.70
C8_Witness ==
    /\ call # <<>>
    /\ call[1].detected_state = BOTTLE_IN_HAND
    /\ call[1].confidence = 70
    /\ call[1].track_id \in DOMAIN tracked_persons
    /\ LET person == tracked_persons[call[1].track_id] IN
       /\ person.current_state = BOTTLE_IN_HAND
       /\ person.consecutive_frames = 1
       /\ person.sequence_states = <<BOTTLE_IN_HAND>>
       /\ person.sequence_started_at = <<person.last_update>>
       /\ person.state_history =
             <<StateTransition(IDLE, BOTTLE_IN_HAND, person.last_update, 70)>>

\* C9: an update call with detected state Uncertain changes nothing of the
\* subject but its last-update timestamp and returns (current state, not
\* completed, no event); no subject's current state is ever Uncertain.
C9_UncertainChangesNothing ==
    [][/\ (UpdateStep /\ call'[1].detected_state = UNCERTAIN) =>
                /\ New = [Old EXCEPT !.last_update = now]
                /\ ret'[1] = <<Old.current_state, FALSE, <<>>>>
       /\ \A track_id \in DOMAIN tracked_persons' :
            New.current_state # UNCERTAIN
      ]_vars

\* A subject in Drinking with a running counter has just received an Uncertain
\* detection, after the clock moved
C9_Witness ==
    /\ call # <<>> /\ ret # <<>>
    /\ call[1].detected_state = UNCERTAIN
    /\ call[1].track_id \in DOMAIN tracked_persons
    /\ LET person == tracked_persons[call[1].track_id] IN
       /\ person.current_state = DRINKING
       /\ person.consecutive_frames >= 1
       /\ person.last_update = now
       /\ person.sequence_started_at # <<>>
       /\ person.sequence_started_at[1] < now
    /\ ret[1] = <<DRINKING, FALSE, <<>>>>

\* The states entered, in order, since the current attempt began (since the
\* last recorded transition into Idle or Completed)
RECURSIVE AttemptEntries(_)
AttemptEntries(state_history) ==
    IF state_history = <<>> THEN <<>>
    ELSE LET last == state_history[Len(state_history)] IN
         IF last.to_state \in {IDLE, COMPLETED} THEN <<>>
         ELSE Append(AttemptEntries(SubSeq(state_history, 1, Len(state_history) - 1)),
                     last.to_state)

\* seq without the repeated occurrences of its elements
RECURSIVE FirstOccurrences(_)
FirstOccurrences(seq) ==
    IF seq = <<>> THEN <<>>
    ELSE LET init == SubSeq(seq, 1, Len(seq) - 1) IN
         IF seq[Len(seq)] \in Range(init)
         THEN FirstOccurrences(init)
         ELSE Append(FirstOccurrences(init), seq[Len(seq)])

\* C10: every subject's accumulated sequence holds only ObjectInHand,
\* LidOpening and Drinking, each at most once, in the order in which the
\* subject first entered them during the current attempt.
C10_SequenceFirstOccurrenceOrder ==
    \A track_id \in DOMAIN tracked_persons :
        LET person == tracked_persons[track_id] IN
        /\ Range(person.sequence_states) \subseteq {BOTTLE_IN_HAND, CAP_OPENING, DRINKING}
        /\ \A i, j \in DOMAIN person.sequence_states :
              person.sequence_states[i] = person.sequence_states[j] => i = j
        /\ person.sequence_states = FirstOccurrences(AttemptEntries(person.state_history))

\* A subject went ObjectInHand -> LidOpening -> ObjectInHand: ObjectInHand was
\* entered twice and is listed once
C10_Witness ==
    \E track_id \in DOMAIN tracked_persons :
        LET person == tracked_persons[track_id] IN
        /\ person.current_state = BOTTLE_IN_HAND
        /\ Len(person.state_history) = 3
        /\ person.state_history[3].from_state = CAP_OPENING
        /\ person.sequence_states = <<BOTTLE_IN_HAND, CAP_OPENING>>

----------------------------------------------------------------------------
(* Properties of RingBuffer *)

Min(a, b) == IF a <= b THEN a ELSE b

\* A step of add_frame: the only operation that advances the frame counter
AddFrameStep == _frame_counter' = _frame_counter + 1

\* The positions of the buffered entries whose timestamp lies in [lo, hi]
MatchingIndexes(lo, hi) ==
    {i \in 1..Len(_buffer) : lo <= _buffer[i].timestamp /\ _buffer[i].timestamp <= hi}

\* C11: whatever sequence of add_frame, range queries, clip queries and clear
\* is applied, the ring buffer never holds more than duration_seconds * fps
\* entries.
C11_CapacityBound == Len(_buffer) <= duration_seconds * fps

\* add_frame has just been applied to a full buffer
C11_Witness ==
    /\ rb_call # <<>>
    /\ rb_call[1].op = "add_frame"
    /\ _frame_counter > duration_seconds * fps
    /\ Len(_buffer) = duration_seconds * fps

\* C12: after k appends to an initially empty buffer of capacity C the buffer
\* holds exactly the last min(k, C) appended entries, in append order: it has
\* min(k, C) entries, they carry the ids k - min(k, C) + 1 .. k in order, and
\* every append puts the new entry last and keeps the newest older entries
\* unchanged in front of it.
C12_HoldsLastAppended ==
    /\ [](/\ Len(_buffer) = Min(_frame_counter, duration_seconds * fps)
          /\ \A i \in 1..Len(_buffer) :
                _buffer[i].frame_id = _frame_counter - Len(_buffer) + i)
    /\ [][AddFrameStep =>
            LET n == Len(_buffer') IN
            /\ n > 0
            /\ _buffer'[n] = BufferedFrame(rb_call'[1].frame, rb_call'[1].timestamp,
                                           _frame_counter')
            /\ \A i \in 1..(n - 1) :
                  _buffer'[i] = _buffer[Len(_buffer) - (n - 1) + i]]_vars

\* Four appends to a buffer of capacity two: entries 3 and 4 are left
C12_Witness ==
    /\ duration_seconds * fps = 2
    /\ _frame_counter = 4
    /\ Len(_buffer) = 2
    /\ _buffer[1].frame_id = 3
    /\ _buffer[2].frame_id = 4

\* C13: get_clip_frames(event_start, event_end, before, after) returns exactly
\* the buffered entries whose timestamp t satisfies
\* event_start - before <= t <= event_end + after (both ends inclusive), in
\* insertion order, and that is what get_frames_in_range returns for the same
\* two ends.
C13_ClipWindowInclusive ==
    (rb_call # <<>> /\ rb_call[1].op = "get_clip_frames") =>
        LET c == rb_call[1]
            lo == c.event_start - c.before_sec
            hi == c.event_end + c.after_sec
            idx == MatchingIndexes(lo, hi)
            r == rb_ret[1]
        IN  /\ Len(r) = Cardinality(idx)
            /\ \A j \in 1..Len(r) :
                  r[j] = _buffer[CHOOSE i \in idx :
                                    Cardinality({m \in idx : m < i}) = j - 1]
            /\ r = get_frames_in_range(lo, hi)

\* A clip query whose window ends exactly on a buffered timestamp and leaves
\* an earlier entry out
C13_Witness ==
    /\ rb_call # <<>>
    /\ rb_call[1].op = "get_clip_frames"
    /\ rb_call[1].after_sec = 1
    /\ Len(rb_ret[1]) > 0
    /\ Len(rb_ret[1]) < Len(_buffer)
    /\ \E j \in 1..Len(rb_ret[1]) :
          rb_ret[1][j].timestamp = rb_call[1].event_end + rb_call[1].after_sec

----------------------------------------------------------------------------
(* Properties of the arbitration *)

\* A cached result applies to the subject: ids match or one subject is visible
Applies(cached) ==
    /\ cached # <<>>
    /\ (cached[1].track_id = pa_det[1].track_id \/ pa_n_persons = 1)

Subtle == {CAP_OPENING, DRINKING}

----------------------------------------------------------------------------
(* Properties of the pipeline *)

LoopEnded == {"done", "crashed"}

\* C15: once started, the fast loop and the confirmation loop keep iterating
\* until stop() is called: no detector failure, read failure, callback
\* exception, rendering or merge error, or artifact I/O error ends a loop.
C15_LoopsRunUntilStop ==
    stop_pc = "idle" => (frame_pc \notin LoopEnded /\ detect_pc \notin LoopEnded)

\* C16: when the confirmation classifier is unavailable (its initialisation
\* failed for lack of credentials) the confirmation loop exits instead of
\* iterating: it makes no classifier call, so no iteration of it is logged.
C16_UnavailableClassifierNotCalled ==
    _llm = "no_client" => det_log = <<>>

\* A step that starts an iteration of _frame_loop
NewFrameIteration ==
    frame_pc = "top" /\ (frame_pc' = "detect" \/ tick_log' # tick_log)

\* A step that starts an iteration of _detection_loop
NewDetectionIteration ==
    detect_pc = "top" /\ (detect_pc' = "call" \/ det_log' # det_log)

\* C17: after stop() neither loop starts a further iteration, both loops
\* eventually terminate, and when stop() has returned the frame source and
\* the classifier client are released.
C17_StopTerminatesLoops ==
    /\ [][stop_pc # "idle" => (~NewFrameIteration /\ ~NewDetectionIteration)]_vars
    /\ (stop_pc # "idle") ~> (frame_pc \in LoopEnded /\ detect_pc \in LoopEnded)
    /\ [](stop_pc = "returned" => (_capture = "stopped" /\ _llm = "closed"))

\* Both loops had iterated, stop() has returned and both loops have returned
C17_Witness ==
    /\ stop_pc = "returned"
    /\ frame_pc = "done"
    /\ detect_pc = "done"
    /\ tick_log # <<>>
    /\ tick_log[1].step = "detect"
    /\ det_log # <<>>
    /\ det_log[1].step = "returned"

\* C18: every completed-sequence event the state machine produced is
\* forwarded to the persistence callback exactly once, also when writing the
\* snapshot or the clip fails by an error return or by an exception.
C18_EveryEventForwarded ==
    \A i \in 1..Len(handled) : handled[i].forwarded

\* C19: in a forwarded event the snapshot reference is non-null only if the
\* snapshot was written, and the clip reference only if the clip was encoded.
C19_RefsOnlyWhenWritten ==
    \A i \in 1..Len(handled) :
        handled[i].forwarded =>
            /\ handled[i].snapshot_path => handled[i].snapshot_written
            /\ handled[i].clip_path => handled[i].clip_written

\* C20: on every fast-loop tick in which the box detector reports at least one
\* subject, update is called exactly once, for the primary subject's id, with
\* exactly the arbitrated state and confidence (Idle included).
C20_UpdateOncePerSubjectTick ==
    (/\ tick_log # <<>>
     /\ tick_log[1].step = "detect"
     /\ ~tick_log[1].raised
     /\ tick_log[1].persons # <<>>)
    => /\ Len(tick_log[1].updates) = 1
       /\ Len(tick_log[1].merged) >= 1
       /\ tick_log[1].updates[1].track_id = tick_log[1].persons[1]
       /\ tick_log[1].updates[1].detected_state = tick_log[1].merged[1].action.state
       /\ tick_log[1].updates[1].confidence =
             ToPercent(tick_log[1].merged[1].action.confidence)

\* C21: every fast-loop tick that obtained a frame publishes exactly one
\* merged result, and its subjects are the subjects the box detector reported
\* in that tick: the same ids in the same order.
C21_TickPublishesOnePerSubject ==
    (tick_log # <<>> /\ tick_log[1].step = "detect")
    => /\ tick_log[1].published
       /\ Len(tick_log[1].merged) = Len(tick_log[1].persons)
       /\ \A i \in 1..Len(tick_log[1].persons) :
             tick_log[1].merged[i].track_id = tick_log[1].persons[i]

\* C25: if the frame source cannot be opened, start() returns failure, the
\* status becomes error and neither loop is started; nothing is retried: the
\* pipeline stays not-running, the only step it can take is the caller's
\* next start(), and that start() is able to open the source.
C25_StartFailure ==
    /\ [][(start_ret' = <<FALSE>> /\ start_ret' # start_ret)
          => (_status' = "error" /\ ~_running'
              /\ frame_pc' = "none" /\ detect_pc' = "none")]_vars
    /\ [](_status = "error"
          => (/\ start_ret = <<FALSE>>
              /\ ~_running
              /\ frame_pc = "none" /\ detect_pc = "none"
              /\ ENABLED Start))
    /\ [][_status = "error" => (_capture' \in {"unopened", "started"}
                                /\ start_ret' # <<>>
                                /\ (_running' => _capture' = "started"))]_vars

\* A start() that failed: the status is error and nothing runs
C25_Witness ==
    /\ _status = "error"
    /\ start_ret = <<FALSE>>
    /\ _capture = "unopened"
    /\ ~_running

\* C28: when a confirmation-classifier call fails, the latest-confirmation
\* slot keeps the value it held before the call.
C28_FailureKeepsSlot ==
    [][(/\ detect_pc = "call"
        /\ det_log' # <<>>
        /\ det_log'[1].step = "returned"
        /\ ~det_log'[1].ok)
       => _last_llm_detection' = _last_llm_detection]_vars

\* C29: the materialization of a completed-sequence event does not block the
\* fast loop: while an event produced in a tick is not yet materialized, the
\* loop is able to begin its next tick (read the next frame).
C29_MaterializationDoesNotBlock ==
    (tasks # <<>> /\ frame_pc = "top" /\ FrameLoopCondition)
    => ENABLED (FrameLoopRead \/ FrameLoopReadFails)

\* The pipeline with the wall clock advancing
NextPipelineClock == NextPipeline \/ Tick

SpecPipelineClock == InitPipeline /\ [][NextPipelineClock]_vars

FairSpecPipelineClock == InitPipeline /\ [][NextPipelineClock]_vars /\ FairPipeline

\* C22: while the pipeline runs a periodic sweep purges stale subjects: every
\* subject whose last update is more than 30 s old is eventually removed from
\* the table, and no subject updated within the last 30 s is ever removed.
C22_SweepPurgesStale ==
    /\ \A t \in TrackIds \cup {0} :
          (t \in StaleIds) ~> (t \notin DOMAIN tracked_persons)
    /\ [][\A t \in DOMAIN tracked_persons :
             t \notin DOMAIN tracked_persons' => t \in StaleIds]_vars

\* The sum of the confidences of the last k entries of a history
RECURSIVE SumOfLast(_, _)
SumOfLast(history, k) ==
    IF k = 0 THEN 0
    ELSE history[Len(history)].confidence
         + SumOfLast(SubSeq(history, 1, Len(history) - 1), k - 1)

\* C26: the confidence of a completed-sequence event is the arithmetic mean
\* of the confidences of the subject's last min(5, n) recorded transitions,
\* n being the number of transitions recorded so far, the committing
\* transition into Completed included.
C26_EventConfidenceIsRecentMean ==
    [][
        (UpdateStep /\ ret'[1][3] # <<>>) =>
            LET history == New.state_history
                n == Len(history)
                k == Min(5, n)
                confidence == ret'[1][3][1].confidence
            IN  /\ n >= 1
                /\ history[n].to_state = COMPLETED
                /\ n = Len(Old.state_history) + 1
                /\ confidence.den > 0
                /\ confidence.num * k = SumOfLast(history, k) * confidence.den
      ]_vars

\* An event of a subject with more than five recorded transitions whose
\* oldest transition has another confidence than the ones averaged
C26_Witness ==
    /\ ret # <<>>
    /\ ret[1][3] # <<>>
    /\ Len(tracked_persons[1].state_history) > 5
    /\ ret[1][3][1].confidence.den = 5
    /\ tracked_persons[1].state_history[1].confidence = 60
    /\ ret[1][3][1].confidence.num = 5 * 95

\* The state and the confidence of what the detector call returned
LlmReturned ==
    IF llm_call[1].api = "detect"
    THEN <<llm_ret[1].action.state, llm_ret[1].action.confidence>>
    ELSE llm_ret[1]

\* The answer is not JSON, or its state label is no ActionState
Malformed(output) ==
    \/ output.kind = "text"
    \/ output.kind = "json" /\ Lower(output.state) \notin ActionState \cup {"null"}

\* C27: when the classifier's output carries a state label that is no known
\* ActionState, or cannot be parsed, the classification handed on is Idle
\* with confidence 0, whatever confidence the output contained.
C27_MalformedIsIdleZero ==
    (llm_ret # <<>> /\ Malformed(llm_call[1].output))
    => LlmReturned = <<IDLE, 0>>

\* The step is a get_frame call that returns a frame
GetFrameStep == bc_got' # bc_got /\ bc_got'[1].ret

\* C24: the buffered frame source holds at most 2 pending frames, and
\* whenever get_frame returns a frame it is the most recently captured one:
\* no newer frame is pending at that moment.
C24_GetFrameReturnsNewest ==
    /\ [](Len(bc_buffer) <= 2)
    /\ [][GetFrameStep =>
             \A i \in 1..Len(bc_buffer') : bc_buffer'[i] < bc_got'[1].frame]_vars

----------------------------------------------------------------------------
(* Properties of the ring buffer under concurrent calls *)

\* The thread is inside a with self._lock block
InCritical(t) == rb_threads[t].pc \in {"load", "store", "append", "scan", "unlock"}

\* The entries of a buffer value whose timestamp lies in [lo, hi]
EntriesInRange(buf, lo, hi) ==
    SelectSeq(buf, LAMBDA f : lo <= f.timestamp /\ f.timestamp <= hi)

\* The appends carried out so far: the counter, less the one call that has
\* stored the counter and not yet appended
Appended ==
    _frame_counter - Cardinality({a \in Appenders : rb_threads[a].pc = "append"})

\* C30: appends and range queries on the ring buffer are mutually exclusive:
\* under any interleaving of concurrent add_frame and range calls, a query
\* returns the matching entries of the buffer as it stood at one instant
\* between the query's call and its return, no append is lost, and no two
\* appends receive the same id.
C30_AppendsAndQueriesExclusive ==
    /\ \A t1 \in Appenders \cup Queriers, t2 \in Appenders \cup Queriers :
          (InCritical(t1) /\ InCritical(t2)) => t1 = t2
    /\ \A q \in Queriers :
          (rb_threads[q].pc = "idle" /\ rb_threads[q].ret # <<>>)
          => \E buf \in rb_threads[q].seen :
                rb_threads[q].ret[1] =
                    EntriesInRange(buf, rb_threads[q].start_time, rb_threads[q].end_time)
    /\ Len(_buffer) = Min(max_frames, Appended)
    /\ \A i \in 1..Len(_buffer) :
          _buffer[i].frame_id = Appended - Len(_buffer) + i
    /\ \A a1 \in Appenders, a2 \in Appenders :
          (/\ a1 # a2
           /\ rb_threads[a1].ret # <<>>
           /\ rb_threads[a2].ret # <<>>)
          => rb_threads[a1].ret # rb_threads[a2].ret

\* A query has returned entries while appends went on between its call and
\* its return, both appending threads have had a call return, and the buffer
\* has dropped an entry
C30_Witness ==
    /\ \E q \in Queriers :
          /\ rb_threads[q].pc = "idle"
          /\ rb_threads[q].ret # <<>>
          /\ rb_threads[q].ret[1] # <<>>
          /\ Cardinality(rb_threads[q].seen) >= 2
    /\ \A a \in Appenders : rb_threads[a].ret # <<>>
    /\ Appended > max_frames

----------------------------------------------------------------------------
(* Properties of the timed confirmation loop *)

\* The step in which the LLM call of an iteration returns
LlmReturnStep == detect_pc = "call" /\ detect_pc' # "call"

\* C23: the start times of two consecutive classifier invocations of the
\* confirmation loop are at least min_gap apart: after a call that took
\* elapsed < min_gap the loop sleeps min_gap - elapsed, and after a call
\* that took min_gap or more it does not sleep.
C23_CallsMinGapApart ==
    /\ [](\A i \in 1..(Len(llm_calls) - 1) :
             llm_calls[i + 1] - llm_calls[i] >= min_gap)
    /\ [][LlmReturnStep =>
             LET elapsed == time_ms - call_start[1] IN
             IF elapsed < min_gap
             THEN /\ detect_pc' = "gap"
                  /\ sleep_until' = <<time_ms + (min_gap - elapsed)>>
             ELSE detect_pc' = "top" /\ sleep_until' = <<>>]_vars
    /\ [][(detect_pc = "gap" /\ detect_pc' # "gap")
             => time_ms >= sleep_until[1]]_vars

\* Three invocations: the first took longer than min_gap and the second
\* followed without a sleep, the second took less and the third followed
\* exactly min_gap after it
C23_Witness ==
    /\ Len(llm_calls) = 3
    /\ llm_calls[2] - llm_calls[1] = min_gap + TickMs
    /\ llm_calls[3] - llm_calls[2] = min_gap
    /\ _llm = "client"

\* C31: over any sequence of add_frame, queries and clear, every add_frame
\* returns an id strictly greater than the id every earlier add_frame returned,
\* and the buffered entries are in strictly increasing id order.  add_frame
\* returns the frame counter as it leaves it, so the ids it hands out grow
\* exactly when each add_frame returns more than the counter it found and no
\* operation ever moves the counter back.
C31_IdsStrictlyIncrease ==
    /\ [][AddFrameStep => rb_ret' = <<_frame_counter'>> /\ rb_ret'[1] > _frame_counter]_vars
    /\ [][_frame_counter' >= _frame_counter]_vars
    /\ [](\A i \in 1..Len(_buffer), j \in 1..Len(_buffer) :
             i < j => _buffer[i].frame_id < _buffer[j].frame_id)

\* C36: in every state update calls can reach, for every subject, the
\* sequence-start timestamp is null exactly when the current state is Idle, the
\* accumulated sequence is empty exactly when the current state is Idle, and
\* the state stored between calls is never Completed.
C36_SequenceFieldsFollowState ==
    \A t \in DOMAIN tracked_persons :
        LET person == tracked_persons[t] IN
        /\ (person.sequence_started_at = <<>>) <=> (person.current_state = IDLE)
        /\ (person.sequence_states = <<>>) <=> (person.current_state = IDLE)
        /\ person.current_state # COMPLETED

\* A subject that went back from LidOpening to ObjectInHand: not Idle, with a
\* start timestamp and two accumulated states
C36_Witness ==
    /\ 1 \in DOMAIN tracked_persons
    /\ tracked_persons[1].current_state = BOTTLE_IN_HAND
    /\ tracked_persons[1].sequence_states = <<BOTTLE_IN_HAND, CAP_OPENING>>
    /\ tracked_persons[1].sequence_started_at # <<>>

\* C37: every CompletedSequenceEvent update returns has a start timestamp that
\* is not null and not later than its end timestamp, and its sequence is
\* exactly [ObjectInHand, LidOpening, Drinking]; so _handle_event_completed
\* never returns at its test for a missing start or end timestamp.
C37_EventsAreWellFormed ==
    (ret # <<>> /\ ret[1][3] # <<>>) =>
        LET event_data == ret[1][3][1] IN
        /\ event_data.start_ts # <<>>
        /\ event_data.start_ts[1] <= event_data.end_ts
        /\ event_data.sequence = SEQUENCE_STATES

\* An event was returned whose sequence started before the clock advanced
C37_Witness ==
    /\ ret # <<>>
    /\ ret[1][2]
    /\ ret[1][3] # <<>>
    /\ ret[1][3][1].start_ts = <<0>>
    /\ ret[1][3][1].end_ts > 0

\* C38: update(subject_id, ...) changes only the track state of subject_id,
\* which it creates Idle with counter 0 if it is new: every other tracked
\* subject keeps its state, confidence, counter, sequence fields and
\* last-update timestamp, and no subject is removed.
C38_UpdateTouchesOneSubject ==
    [][call' # <<>> =>
         LET subject_id == call'[1].track_id IN
         /\ DOMAIN tracked_persons' = DOMAIN tracked_persons \cup {subject_id}
         /\ \A t \in DOMAIN tracked_persons \ {subject_id} :
               tracked_persons'[t] = tracked_persons[t]
         /\ subject_id \notin DOMAIN tracked_persons =>
               tracked_persons'[subject_id] =
                   update(subject_id, call'[1].detected_state, call'[1].confidence).person
      ]_vars

\* Subject 1 has just been updated while subject 2 is tracked in another
\* state with a counter of its own
C38_Witness ==
    /\ call # <<>>
    /\ call[1].track_id = 1
    /\ DOMAIN tracked_persons = {1, 2}
    /\ tracked_persons[2].current_state = CAP_OPENING
    /\ tracked_persons[2].consecutive_frames = 2
    /\ tracked_persons[1].current_state = BOTTLE_IN_HAND

\* C40: in every reachable state the status a FrameProcessor reports is one of
\* the values of CameraStatus (running, stopped, error), so list_cameras and
\* get_camera, which build CameraStatus(processor.status), can always report
\* the status of a running camera.
C40_StatusIsCameraStatus == _status \in CameraStatus

\* A step of the running fast loop (_frame_loop)
FastLoopStep ==
    /\ frame_pc \in {"top", "detect"}
    /\ frame_pc' # frame_pc \/ tick_log' # tick_log

\* A step of the running confirmation loop (_detection_loop)
ConfirmationLoopStep ==
    /\ detect_pc \in {"wait", "top", "call"}
    /\ detect_pc' # detect_pc \/ det_log' # det_log

\* C33: each loop writes only its own shared slots: the confirmation loop never
\* writes the latest-frame, latest-box-result or latest-pose-result slot, the
\* fast loop never writes the latest-confirmation slot or the
\* last-confirmation time, no other step changes a slot, and every slot holds a
\* whole value after every step.
C33_EachLoopWritesItsOwnSlots ==
    /\ [][ConfirmationLoopStep =>
            UNCHANGED <<_latest_raw_frame, _latest_yolo_detections,
                        _last_movenet_detection>>]_vars
    /\ [][FastLoopStep =>
            UNCHANGED <<_last_llm_detection, _last_detection_time>>]_vars
    /\ [][<<_latest_raw_frame, _latest_yolo_detections, _last_movenet_detection>>' #
          <<_latest_raw_frame, _latest_yolo_detections, _last_movenet_detection>>
            => FastLoopStep]_vars
    /\ [][<<_last_llm_detection, _last_detection_time>>' #
          <<_last_llm_detection, _last_detection_time>>
            => ConfirmationLoopStep]_vars
    /\ [](/\ _latest_raw_frame \in {<<>>} \cup {<<i>> : i \in 1..MaxAppends}
          /\ _latest_yolo_detections.kind \in {"list", "pair"}
          /\ \A i \in 1..Len(_latest_yolo_detections.persons) :
                _latest_yolo_detections.persons[i] =
                    YoloPerson(_latest_yolo_detections.persons[i].track_id)
          /\ _last_llm_detection \in {<<>>} \cup
                {<<PersonDetection(t, ActionResult(st, c, "confirm"))>> :
                    t \in 0..1, st \in LlmStates, c \in LlmConfidences \cup {0}})

\* Both loops have written their slots: the fast loop stored a frame and a
\* box result, and the confirmation loop has just stored an answer
C33_Witness ==
    /\ _latest_raw_frame # <<>>
    /\ tick_log # <<>>
    /\ tick_log[1].step = "detect"
    /\ _last_llm_detection # <<>>
    /\ det_log # <<>>
    /\ det_log[1].step = "returned"

\* C32: the clip of a completed event spans the whole event window: it
\* contains every frame the fast loop appends to the ring buffer with a
\* timestamp in [start_ts - clip_before_sec, end_ts + clip_after_sec] that has
\* not been evicted, the frames of the post-roll after the event's end
\* included.
C32_ClipSpansEventWindow ==
    \A h \in 1..Len(handled) :
        handled[h].clip_written =>
            \A i \in 1..Len(_buffer) :
                (/\ handled[h].event.start_ts[1] - clip_before_sec <= _buffer[i].timestamp
                 /\ _buffer[i].timestamp <= handled[h].event.end_ts + clip_after_sec)
                => _buffer[i].frame_id \in Range(handled[h].clip_frames)

\* The number of times message m occurs in seq
Occurrences(seq, m) == Cardinality({i \in 1..Len(seq) : seq[i] = m})

\* C39: whatever the number of WebSocket clients connected to a camera, each
\* MergedFrameResult its fast loop publishes is delivered to each connected
\* client at most once; when a client has disconnected its callback is no
\* longer in the manager's list and it receives nothing further.
C39_DeliveredAtMostOnce ==
    /\ [](\A c \in Clients : \A m \in 1..MaxPublished :
             Occurrences(ws_received[c], m) <= 1)
    /\ [](\A c \in Clients :
             ws_pc[c] = "closed" =>
                 \A i \in 1..Len(_ws_callbacks) : _ws_callbacks[i] # c)
    /\ [][\A c \in Clients :
             ws_pc[c] = "closed" => ws_received'[c] = ws_received[c]]_vars

\* C35: under any interleaving of concurrent start_camera and stop_camera
\* requests for one camera id, at most one FrameProcessor is running for the
\* camera, and every running processor is the one in the manager's table (so
\* that stop_camera and stop_all stop it).
C35_OneRegisteredProcessor ==
    /\ Cardinality(RunningProcessors) <= 1
    /\ \A p \in RunningProcessors : _processors = <<p>>

\* The loop tasks that have neither returned nor died
ActiveFrameLoops == {i \in 1..Len(frame_loops) : frame_loops[i] \in {"top", "detect"}}
ActiveDetectionLoops ==
    {i \in 1..Len(detection_loops) : detection_loops[i].pc \in {"wait", "top", "call"}}

\* C34: after any sequence of start() and stop() calls on one FrameProcessor
\* (stop() followed by start() while an old loop is still suspended in an
\* await, and overlapping start() calls, included), at most one fast loop and
\* at most one confirmation loop are active, so that state-machine updates
\* and ring-buffer appends come from a single fast loop.
C34_OneLoopOfEachKind ==
    /\ Cardinality(ActiveFrameLoops) <= 1
    /\ Cardinality(ActiveDetectionLoops) <= 1

====
